---- MODULE Spec2Model ----
(***************************************************************************)
(* Rules subsystem of the MTG server: the zone manager (validated,         *)
(* snapshot-producing zone changes, draw, mill), the timing manager        *)
(* (legality of casting, activating and playing a land now) and the        *)
(* state-based-action manager's application step.                          *)
(*                                                                         *)
(* A game snapshot is an object on a heap of two cells: the snapshot the   *)
(* caller holds and the one it held before the last call.  Operations      *)
(* that JSON-clone their input write a fresh cell; drawCard and millCards  *)
(* mutate the cell they are given.                                         *)
(***************************************************************************)
EXTENDS Integers, Sequences, FiniteSets, TLC

\* ---------------------------------------------------------------- bounds
NumCards == 2        \* card instances in a game
MaxPos == 1          \* largest ZoneChangeEvent.position tried
MaxCount == 2        \* largest millCards count tried
MaxStack == 1        \* most objects on the stack of a timing query
MaxPhrases == 1      \* most restriction phrases in one rules text

\* ----------------------------------------------------------------- types
Cards == 1..NumCards
PlayerIds == {"player", "ai"}
Zone == {"hand", "library", "graveyard", "exile", "battlefield", "stack"}
PlayerZones == {"hand", "library", "graveyard", "exile"}
\* an optional value is a sequence: <<>> for undefined or null, <<v>> for v
Undefined == <<>>
Null == <<>>
Positions == {Undefined} \cup {<<i>> : i \in 0..MaxPos}
NoSnapshot == [null |-> TRUE]

\* ------------------------------------------------------- array primitives
\* Array.prototype.some(c => c.id === id)
Some(arr, id) == \E i \in DOMAIN arr : arr[i] = id

\* Array.prototype.filter(c => c.id !== id)
FilterOut(arr, id) == SelectSeq(arr, LAMBDA c : c # id)

\* Array.prototype.splice(start, 0, item): start is clamped to the length,
\* a negative start counts from the end.
Splice(arr, start, item) ==
  LET n == Len(arr)
      at == IF start < 0 THEN (IF n + start < 0 THEN 0 ELSE n + start)
            ELSE (IF start > n THEN n ELSE start)
  IN SubSeq(arr, 1, at) \o <<item>> \o SubSeq(arr, at + 1, n)

\* Array.prototype.push / unshift
Push(arr, item) == Append(arr, item)
Unshift(arr, item) == <<item>> \o arr

\* Array.prototype.findIndex(c => c.id === id), 1-based; 0 for -1
FindIndex(arr, id) ==
  IF Some(arr, id) THEN CHOOSE i \in DOMAIN arr :
                          arr[i] = id /\ \A j \in 1..(i - 1) : arr[j] # id
  ELSE 0

RemoveAt(arr, i) == SubSeq(arr, 1, i - 1) \o SubSeq(arr, i + 1, Len(arr))

\* --------------------------------------------------------- ZoneManager
\* stack objects are records [id, source, controller]; source is a card id
StackSome(stack, id) == \E i \in DOMAIN stack : stack[i].source = id

cardExistsInZone(card, zone, p, gameState) ==
  CASE zone = "hand" -> Some(gameState.players[p].hand, card)
    [] zone = "library" -> Some(gameState.players[p].library, card)
    [] zone = "graveyard" -> Some(gameState.players[p].graveyard, card)
    [] zone = "exile" -> Some(gameState.players[p].exile, card)
    [] zone = "battlefield" -> Some(gameState.battlefield["player"], card)
                               \/ Some(gameState.battlefield["ai"], card)
    [] zone = "stack" -> StackSome(gameState.stack, card)
    [] OTHER -> FALSE

validTransitions ==
  [hand |-> {"battlefield", "graveyard", "exile", "library", "stack"},
   library |-> {"hand", "graveyard", "exile", "battlefield"},
   graveyard |-> {"hand", "library", "exile", "battlefield", "stack"},
   exile |-> {"hand", "library", "graveyard", "battlefield", "stack"},
   battlefield |-> {"graveyard", "exile", "hand", "library"},
   stack |-> {"graveyard", "exile", "battlefield", "hand"}]

\* a table that only refuses a move to the zone the card is in
isValidZoneTransitionAnyOther(from, to) == to # from

isValidZoneTransition(from, to) == to \in validTransitions[from]

canEnterBattlefield(card, gameState) == TRUE

\* "ok", or the ValidationError thrown
validateZoneChange(event, gameState) ==
  IF ~cardExistsInZone(event.card, event.from, event.player, gameState)
    THEN "not_found"
  ELSE IF ~isValidZoneTransition(event.from, event.to)
    THEN "invalid_transition"
  ELSE IF event.to = "battlefield" /\ ~canEnterBattlefield(event.card, gameState)
    THEN "cannot_enter"
  ELSE "ok"

removeCardFromZone(card, zone, p, gameState) ==
  CASE zone \in PlayerZones ->
         [gameState EXCEPT !.players[p][zone] = FilterOut(@, card)]
    [] zone = "battlefield" ->
         IF Some(gameState.battlefield["player"], card)
         THEN [gameState EXCEPT !.battlefield["player"] = FilterOut(@, card)]
         ELSE [gameState EXCEPT !.battlefield["ai"] = FilterOut(@, card)]
    [] zone = "stack" ->
         [gameState EXCEPT !.stack = SelectSeq(@, LAMBDA obj : obj.source # card)]
    [] OTHER -> gameState

\* every zone appends by default, the library too
addCardToZoneAppend(card, zone, p, gameState, position) ==
  CASE zone \in PlayerZones ->
         IF position # Undefined
         THEN [gameState EXCEPT !.players[p][zone] = Splice(@, position[1], card)]
         ELSE [gameState EXCEPT !.players[p][zone] = Push(@, card)]
    [] zone = "battlefield" ->
         [gameState EXCEPT !.battlefield[p] = Push(@, card)]
    [] OTHER -> gameState

addCardToZone(card, zone, p, gameState, position) ==
  CASE zone = "hand" ->
         IF position # Undefined
         THEN [gameState EXCEPT !.players[p].hand = Splice(@, position[1], card)]
         ELSE [gameState EXCEPT !.players[p].hand = Push(@, card)]
    [] zone = "library" ->
         IF position # Undefined
         THEN [gameState EXCEPT !.players[p].library = Splice(@, position[1], card)]
         ELSE [gameState EXCEPT !.players[p].library = Unshift(@, card)]
    [] zone = "graveyard" ->
         [gameState EXCEPT !.players[p].graveyard = Push(@, card)]
    [] zone = "exile" ->
         [gameState EXCEPT !.players[p].exile = Push(@, card)]
    [] zone = "battlefield" ->
         [gameState EXCEPT !.battlefield[p] = Push(@, card)]
    [] zone = "stack" -> gameState
    [] OTHER -> gameState

\* the body of executeZoneChange after validation, on the cloned snapshot
applyZoneChange(event, newGameState) ==
  addCardToZone(event.card, event.to, event.player,
                removeCardFromZone(event.card, event.from, event.player, newGameState),
                event.position)

\* player.library.pop() in place of shift(): draws the bottom card
drawCardFromBottom(p, gameState) ==
  IF gameState.players[p].library # <<>>
  THEN LET lib == gameState.players[p].library
       IN [gameState EXCEPT !.players[p].library = SubSeq(lib, 1, Len(lib) - 1),
                            !.players[p].hand = Push(@, lib[Len(lib)])]
  ELSE gameState

\* player.library.shift(), player.hand.push(card)
drawCard(p, gameState) ==
  IF gameState.players[p].library # <<>>
  THEN [gameState EXCEPT !.players[p].library = Tail(@),
                         !.players[p].hand =
                            Push(@, Head(gameState.players[p].library))]
  ELSE gameState

drawCardResult(p, gameState) ==
  IF gameState.players[p].library # <<>>
  THEN <<Head(gameState.players[p].library)>> ELSE Null

\* the loop with graveyard.unshift in place of push: the graveyard ends up
\* in reverse library order
RECURSIVE millLoopUnshift(_, _, _, _, _)
millLoopUnshift(i, count, p, gameState, milled) ==
  IF i < count /\ Len(gameState.players[p].library) > 0
  THEN LET card == Head(gameState.players[p].library)
       IN millLoopUnshift(i + 1, count, p,
                   [gameState EXCEPT !.players[p].library = Tail(@),
                                     !.players[p].graveyard = Unshift(@, card)],
                   Push(milled, card))
  ELSE [gameState |-> gameState, milled |-> milled]

\* the loop of millCards: state after i iterations is (player, milled)
RECURSIVE millLoop(_, _, _, _, _)
millLoop(i, count, p, gameState, milled) ==
  IF i < count /\ Len(gameState.players[p].library) > 0
  THEN LET card == Head(gameState.players[p].library)
       IN millLoop(i + 1, count, p,
                   [gameState EXCEPT !.players[p].library = Tail(@),
                                     !.players[p].graveyard = Push(@, card)],
                   Push(milled, card))
  ELSE [gameState |-> gameState, milled |-> milled]

millCards(p, count, gameState) == millLoop(0, count, p, gameState, <<>>)

\* ------------------------------------------- StateBasedActionManager
\* a StateBasedAction is a record [type, affectedCards]
GraveyardBound ==
  {"creature_dies_toughness", "creature_dies_damage", "creature_dies_deathtouch",
   "planeswalker_dies", "legend_rule_violation", "world_rule_violation",
   "aura_unattached"}

\* a move that puts every card it takes off a battlefield into the first
\* player's graveyard
moveCardToGraveyardOfPlayer(card, gameState) ==
  LET ip == FindIndex(gameState.battlefield["player"], card)
      ia == FindIndex(gameState.battlefield["ai"], card)
  IN IF ip # 0
     THEN [gameState EXCEPT !.battlefield["player"] = RemoveAt(@, ip),
                            !.players["player"].graveyard = Push(@, card)]
     ELSE IF ia # 0
     THEN [gameState EXCEPT !.battlefield["ai"] = RemoveAt(@, ia),
                            !.players["player"].graveyard = Push(@, card)]
     ELSE gameState

\* one iteration of the outer loop of moveCardsToGraveyard: the battlefields
\* are visited in the order of Object.entries (player, ai), first hit wins
moveCardToGraveyard(card, gameState) ==
  LET ip == FindIndex(gameState.battlefield["player"], card)
      ia == FindIndex(gameState.battlefield["ai"], card)
  IN IF ip # 0
     THEN [gameState EXCEPT !.battlefield["player"] = RemoveAt(@, ip),
                            !.players["player"].graveyard = Push(@, card)]
     ELSE IF ia # 0
     THEN [gameState EXCEPT !.battlefield["ai"] = RemoveAt(@, ia),
                            !.players["ai"].graveyard = Push(@, card)]
     ELSE gameState

RECURSIVE moveCardsToGraveyard(_, _)
moveCardsToGraveyard(cards, gameState) ==
  IF cards = <<>> THEN gameState
  ELSE moveCardsToGraveyard(Tail(cards), moveCardToGraveyard(Head(cards), gameState))

unattachEquipment(cards, gameState) == gameState

executeAction(action, gameState) ==
  IF action.type \in GraveyardBound
    THEN moveCardsToGraveyard(action.affectedCards, gameState)
  ELSE IF action.type = "equipment_unattached"
    THEN unattachEquipment(action.affectedCards, gameState)
  ELSE gameState

\* the for-loop of executeStateBasedActions over the cloned snapshot
RECURSIVE applyStateBasedActions(_, _)
applyStateBasedActions(actions, newGameState) ==
  IF actions = <<>> THEN newGameState
  ELSE applyStateBasedActions(Tail(actions), executeAction(Head(actions), newGameState))

\* -------------------------------------------------------- TimingManager
\* A card, for the timing manager, is a record [type_line, oracle_text].  A
\* string is modelled by the set of the phrases it contains, which is all
\* String.prototype.includes reads of it; an optional string is <<>> when it
\* is undefined or empty and <<phrases>> otherwise.
Includes(text, phrase) == phrase \in text

\* card.oracle_text?.toLowerCase() || ''
TextOrEmpty(optional) == IF optional = Undefined THEN {} ELSE optional[1]

Restriction(speed, window, stackEmpty, activePlayer, specialConditions) ==
  [speed |-> speed, window |-> window, stackEmpty |-> stackEmpty,
   activePlayer |-> activePlayer, specialConditions |-> specialConditions]

checkSpeedTiming(speed, gameState) ==
  CASE speed = "instant" -> TRUE
    [] speed = "sorcery" -> /\ gameState.phase \in {"main1", "main2"}
                            /\ Len(gameState.stack) = 0
    [] speed = "ability" -> TRUE
    [] OTHER -> FALSE

checkWindowTiming(window, gameState) ==
  CASE window = "any_time" -> TRUE
    [] window = "main_phase" -> gameState.phase \in {"main1", "main2"}
    [] window = "combat_only" -> gameState.phase = "combat"
    [] window = "upkeep_only" -> gameState.phase = "upkeep"
    [] OTHER -> FALSE

\* gameState.combat?.attackers.length, 0 when there is no combat
AttackersLength(gameState) ==
  IF gameState.combat = Undefined THEN 0 ELSE Len(gameState.combat[1].attackers)

checkSpecialCondition(condition, gameState, player) ==
  CASE condition = "only_your_turn" -> gameState.active_player = player
    [] condition = "only_opponent_turn" -> gameState.active_player # player
    [] condition = "creatures_attacking" -> AttackersLength(gameState) > 0
    [] condition = "no_creatures_attacking" -> AttackersLength(gameState) = 0
    [] condition = "beginning_of_combat" ->
         gameState.phase = "combat" /\ gameState.step = "none"
    [] condition = "end_of_turn" -> gameState.phase = "end"
    [] OTHER -> TRUE

\* the checks of validateTiming without the one on priority
validateTimingNoPriority(timing, gameState, player) ==
  /\ checkSpeedTiming(timing.speed, gameState)
  /\ checkWindowTiming(timing.window, gameState)
  /\ ~(timing.stackEmpty /\ Len(gameState.stack) > 0)
  /\ ~(timing.activePlayer /\ gameState.active_player # player)
  /\ \A i \in DOMAIN timing.specialConditions :
       checkSpecialCondition(timing.specialConditions[i], gameState, player)

validateTiming(timing, gameState, player) ==
  IF ~checkSpeedTiming(timing.speed, gameState) THEN FALSE
  ELSE IF ~checkWindowTiming(timing.window, gameState) THEN FALSE
  ELSE IF timing.stackEmpty /\ Len(gameState.stack) > 0 THEN FALSE
  ELSE IF timing.activePlayer /\ gameState.active_player # player THEN FALSE
  ELSE IF gameState.priority # player THEN FALSE
  ELSE \A i \in DOMAIN timing.specialConditions :
         checkSpecialCondition(timing.specialConditions[i], gameState, player)

SorceryTiming == Restriction("sorcery", "main_phase", TRUE, TRUE, <<>>)

getTypeBasedTiming(card) ==
  IF Includes(card.type_line, "instant")
    THEN Restriction("instant", "any_time", FALSE, FALSE, <<>>)
  ELSE IF Includes(card.type_line, "sorcery") THEN SorceryTiming
  ELSE IF \/ Includes(card.type_line, "creature")
          \/ Includes(card.type_line, "artifact")
          \/ Includes(card.type_line, "enchantment")
          \/ Includes(card.type_line, "planeswalker") THEN SorceryTiming
  ELSE IF Includes(card.type_line, "land")
    THEN Restriction("sorcery", "main_phase", TRUE, TRUE, <<"only_your_turn">>)
  ELSE SorceryTiming

\* flash that lifts speed, window and stack but not the active-player demand
getTextBasedTimingFlashOwnTurn(card) ==
  LET text == TextOrEmpty(card.oracle_text)
      flash == Includes(text, "flash")
  IN [speed |-> IF flash THEN <<"instant">> ELSE Undefined,
      window |-> IF Includes(text, "can only be cast during combat")
                 THEN <<"combat_only">>
                 ELSE IF flash THEN <<"any_time">> ELSE Undefined,
      stackEmpty |-> IF flash THEN <<FALSE>> ELSE Undefined,
      activePlayer |-> Undefined,
      specialConditions |->
        IF Includes(text, "can only be cast if a creature attacked this turn")
          THEN <<(<<"creatures_attacking">>)>>
        ELSE IF Includes(text, "can only be cast during an opponent's turn")
          THEN <<(<<"only_opponent_turn">>)>>
        ELSE IF Includes(text, "can only be cast during your turn")
          THEN <<(<<"only_your_turn">>)>>
        ELSE Undefined]

\* a Partial<TimingRestriction>: each field is <<>> when unset, <<v>> when set;
\* the later assignments of the function overwrite the earlier ones
getTextBasedTiming(card) ==
  LET text == TextOrEmpty(card.oracle_text)
      flash == Includes(text, "flash")
  IN [speed |-> IF flash THEN <<"instant">> ELSE Undefined,
      window |-> IF Includes(text, "can only be cast during combat")
                 THEN <<"combat_only">>
                 ELSE IF flash THEN <<"any_time">> ELSE Undefined,
      stackEmpty |-> IF flash THEN <<FALSE>> ELSE Undefined,
      activePlayer |-> IF flash THEN <<FALSE>> ELSE Undefined,
      specialConditions |->
        IF Includes(text, "can only be cast if a creature attacked this turn")
          THEN <<(<<"creatures_attacking">>)>>
        ELSE IF Includes(text, "can only be cast during an opponent's turn")
          THEN <<(<<"only_opponent_turn">>)>>
        ELSE IF Includes(text, "can only be cast during your turn")
          THEN <<(<<"only_your_turn">>)>>
        ELSE Undefined]

\* a || b and a ?? b on an optional a
OrElse(optional, default) == IF optional = Undefined THEN default ELSE optional[1]

getCardTiming(card) ==
  LET typeRestrictions == getTypeBasedTiming(card)
      textRestrictions == getTextBasedTiming(card)
  IN [speed |-> OrElse(textRestrictions.speed, typeRestrictions.speed),
      window |-> OrElse(textRestrictions.window, typeRestrictions.window),
      stackEmpty |-> OrElse(textRestrictions.stackEmpty, typeRestrictions.stackEmpty),
      activePlayer |->
        OrElse(textRestrictions.activePlayer, typeRestrictions.activePlayer),
      specialConditions |->
        typeRestrictions.specialConditions
          \o OrElse(textRestrictions.specialConditions, <<>>)]

getAbilityTiming(card, abilityText) ==
  LET text == IF abilityText # Undefined THEN abilityText[1]
              ELSE TextOrEmpty(card.oracle_text)
  IN IF \/ Includes(text, "activate only as a sorcery")
        \/ Includes(text, "activate this ability only any time you could cast a sorcery")
       THEN SorceryTiming
     ELSE IF Includes(text, "activate only during combat")
       THEN Restriction("ability", "combat_only", FALSE, FALSE, <<>>)
     ELSE IF Includes(text, "activate only during your turn")
       THEN Restriction("ability", "any_time", FALSE, FALSE, <<"only_your_turn">>)
     ELSE Restriction("ability", "any_time", FALSE, FALSE, <<>>)

canCastSpell(card, gameState, player) ==
  validateTiming(getCardTiming(card), gameState, player)

canActivateAbility(card, gameState, player, abilityText) ==
  validateTiming(getAbilityTiming(card, abilityText), gameState, player)

canPlayLand(gameState, player) ==
  validateTiming(SorceryTiming, gameState, player)

\* a derivation that hands priority to the active player whatever the stack holds
getNextPriorityPlayerActive(gameState) == gameState.active_player

getNextPriorityPlayer(gameState) ==
  IF Len(gameState.stack) = 0 THEN gameState.active_player
  ELSE IF gameState.priority = "player" THEN "ai" ELSE "player"

bothPlayersPassedPriority(gameState) == TRUE

shouldAdvancePhase(gameState) ==
  Len(gameState.stack) = 0 /\ bothPlayersPassedPriority(gameState)

\* ------------------------------------------------------------ snapshots
EmptyPlayer == [hand |-> <<>>, library |-> <<>>, graveyard |-> <<>>, exile |-> <<>>]

StackObject(card, p) == [id |-> card, source |-> card, controller |-> p]

\* a game in its first main phase: the player's deck is the cards below
\* NumCards in order; the last card is the opponent's, either still in the
\* opponent's library or cast and waiting on the stack
StartState(onStack) ==
  [players |-> [player |-> [EmptyPlayer EXCEPT
                              !.library = [i \in 1..(NumCards - 1) |-> i]],
                ai |-> [EmptyPlayer EXCEPT
                          !.library = IF onStack THEN <<>> ELSE <<NumCards>>]],
   battlefield |-> [player |-> <<>>, ai |-> <<>>],
   stack |-> IF onStack THEN <<StackObject(NumCards, "ai")>> ELSE <<>>,
   active_player |-> "player", phase |-> "main1", step |-> "none",
   priority |-> "player", combat |-> Undefined]

\* ------------------------------------------------------------- harness
\* gs        the snapshot object the caller holds
\* before    what the object handed to the last call held when the call began
\* prior     the snapshot object the caller held before the last cloning call,
\*           as it is now (NoSnapshot when it holds none)
\* priorWas  what that object held when it was handed to the call
\* call      the last call: operation, arguments, outcome, returned value
\* pc        "idle", or "returned" while the caller inspects the outcome
VARIABLES gs, before, prior, priorWas, call, pc

vars == <<gs, before, prior, priorWas, call, pc>>

NoCall == [op |-> "none"]

CloneOps == {"executeZoneChange", "executeStateBasedActions"}

\* a shallow copy: the result shares its zones with the input
JSONCloneShared(gameState) == [fresh |-> FALSE, value |-> gameState]

\* JSON.parse(JSON.stringify(gameState)): a fresh object with the same content
JSONClone(gameState) == [fresh |-> TRUE, value |-> gameState]

\* takes the card out of its zone in the object passed in, then validates
executeZoneChangeRemoveFirst(event, gameState) ==
  LET status == validateZoneChange(event, gameState)
      removed == removeCardFromZone(event.card, event.from, event.player, gameState)
      newGameState == addCardToZone(event.card, event.to, event.player, removed,
                                    event.position)
  IN IF status # "ok"
     THEN [status |-> status, input |-> removed, result |-> Null, fresh |-> FALSE]
     ELSE [status |-> "ok", input |-> removed,
           result |-> <<newGameState>>, fresh |-> TRUE]

\* executeZoneChange(event, gameState): validate (which may throw), clone,
\* remove, add.  status is "ok" or the error thrown; input is what the object
\* passed in holds afterwards; result is the returned snapshot, if any; fresh
\* tells whether the result is another object than the input.
executeZoneChange(event, gameState) ==
  LET status == validateZoneChange(event, gameState)
      clone == JSONClone(gameState)
      newGameState == applyZoneChange(event, clone.value)
  IN IF status # "ok"
     THEN [status |-> status, input |-> gameState, result |-> Null, fresh |-> FALSE]
     ELSE [status |-> "ok",
           input |-> IF clone.fresh THEN gameState ELSE newGameState,
           result |-> <<newGameState>>, fresh |-> clone.fresh]

\* executeStateBasedActions(actions, gameState): clone, then every action
executeStateBasedActions(actions, gameState) ==
  LET clone == JSONClone(gameState)
      newGameState == applyStateBasedActions(actions, clone.value)
  IN [status |-> "ok",
      input |-> IF clone.fresh THEN gameState ELSE newGameState,
      result |-> <<newGameState>>, fresh |-> clone.fresh]

ZoneChangeEvents ==
  {e \in [card : Cards, from : Zone, to : Zone, player : PlayerIds,
          position : Positions] :
     e.position # Undefined => e.to \in {"hand", "library"}}

\* the action lists tried: one action naming one or two cards, a player loss,
\* and two actions naming the same card
StateBasedActionLists ==
  {<<[type |-> t, affectedCards |-> <<c>>]>> :
      t \in {"creature_dies_toughness", "equipment_unattached"}, c \in Cards}
  \cup {<<[type |-> "legend_rule_violation", affectedCards |-> <<c, d>>]>> :
          c \in Cards, d \in Cards}
  \cup {<<[type |-> "player_loses_library", affectedCards |-> <<>>]>>}
  \cup {<<[type |-> "creature_dies_toughness", affectedCards |-> <<c>>],
          [type |-> "aura_unattached", affectedCards |-> <<c>>]>> : c \in Cards}

\* a call of a cloning operation on the snapshot the caller holds: on success
\* the caller holds the result and keeps the input as its prior snapshot; on
\* a throw it holds the input still
CloneCall(op, args, r) ==
  /\ pc = "idle"
  /\ call' = [op |-> op, args |-> args, status |-> r.status, fresh |-> r.fresh]
  /\ before' = gs
  /\ gs' = IF r.status = "ok" THEN r.result[1] ELSE r.input
  /\ prior' = IF r.status = "ok" THEN r.input ELSE NoSnapshot
  /\ priorWas' = IF r.status = "ok" THEN gs ELSE NoSnapshot
  /\ pc' = "returned"

ExecuteZoneChange(event) ==
  CloneCall("executeZoneChange", event, executeZoneChange(event, gs))

ExecuteStateBasedActions(actions) ==
  CloneCall("executeStateBasedActions", actions, executeStateBasedActions(actions, gs))

\* the caller may draw on a snapshot it holds: when idle, or once on the
\* result of a cloning call while it still holds the prior snapshot
HoldsResult == pc = "returned" /\ call.op \in CloneOps /\ call.status = "ok"

\* drawCard(gameState.players[p]): mutates the player it is given
DrawCard(p) ==
  /\ pc = "idle" \/ HoldsResult
  /\ call' = [op |-> "drawCard", player |-> p, result |-> drawCardResult(p, gs)]
  /\ before' = gs
  /\ gs' = drawCard(p, gs)
  /\ prior' = IF HoldsResult /\ ~call.fresh THEN drawCard(p, gs) ELSE prior
  /\ priorWas' = priorWas
  /\ pc' = "returned"

\* millCards(gameState.players[p], count): mutates the player it is given
MillCards(p, count) ==
  /\ pc = "idle"
  /\ LET r == millCards(p, count, gs)
     IN /\ call' = [op |-> "millCards", player |-> p, count |-> count,
                    result |-> r.milled]
        /\ gs' = r.gameState
  /\ before' = gs
  /\ UNCHANGED <<prior, priorWas>>
  /\ pc' = "returned"

\* the caller keeps the snapshot it now holds and lets the prior one go
Return ==
  /\ pc = "returned"
  /\ pc' = "idle"
  /\ call' = NoCall
  /\ before' = NoSnapshot
  /\ prior' = NoSnapshot
  /\ priorWas' = NoSnapshot
  /\ UNCHANGED gs

\* ------------------------------------------------------ timing queries
Phases == {"upkeep", "draw", "main1", "combat", "main2", "end"}
Steps == {"none", "declare_attackers", "declare_blockers", "damage"}

Combats ==
  {Undefined,
   <<[attackers |-> <<>>, blockers |-> <<>>]>>,
   <<[attackers |-> <<[id |-> 1, card |-> 1]>>, blockers |-> <<>>]>>}

\* the snapshots a timing query is asked about
TimingStates ==
  {[players |-> [p \in PlayerIds |-> EmptyPlayer],
    battlefield |-> [p \in PlayerIds |-> <<>>],
    stack |-> [i \in 1..n |-> StackObject(i, "ai")],
    active_player |-> active, phase |-> phase, step |-> step,
    priority |-> priority, combat |-> combat] :
     n \in 0..MaxStack, active \in PlayerIds, priority \in PlayerIds,
     phase \in Phases, step \in Steps, combat \in Combats}

\* the words getTypeBasedTiming looks for, one type line for each and one
\* with none of them
TypeLines ==
  {{"instant"}, {"sorcery"}, {"creature"}, {"artifact"}, {"enchantment"},
   {"planeswalker"}, {"land"}, {}}

\* the phrases getTextBasedTiming and getAbilityTiming look for
CastPhrases ==
  {"flash", "can only be cast during combat", "can only be cast during your turn",
   "can only be cast during an opponent's turn",
   "can only be cast if a creature attacked this turn"}

AbilityPhrases ==
  {"activate only as a sorcery",
   "activate this ability only any time you could cast a sorcery",
   "activate only during combat", "activate only during your turn"}

\* an undefined text, or a text holding up to MaxPhrases of the phrases
Texts(phrases) ==
  {Undefined} \cup {<<t>> : t \in {u \in SUBSET phrases :
                                     Cardinality(u) \in 1..MaxPhrases}}

SpellCards == [type_line : TypeLines, oracle_text : Texts(CastPhrases)]
AbilityCards == [type_line : {{"artifact"}}, oracle_text : Texts(AbilityPhrases)]
AbilityTexts == Texts(AbilityPhrases) \cup {<<{}>>}

Query(op, args, player, result) ==
  /\ pc = "idle"
  /\ call' = [op |-> op, args |-> args, player |-> player, result |-> result]
  /\ pc' = "returned"
  /\ UNCHANGED <<gs, before, prior, priorWas>>

CanCastSpell(card, player) ==
  Query("canCastSpell", [card |-> card], player, canCastSpell(card, gs, player))

CanActivateAbility(card, player, abilityText) ==
  Query("canActivateAbility", [card |-> card, abilityText |-> abilityText], player,
        canActivateAbility(card, gs, player, abilityText))

CanPlayLand(player) ==
  Query("canPlayLand", [card |-> Undefined], player, canPlayLand(gs, player))

InitTiming ==
  /\ gs \in TimingStates
  /\ before = NoSnapshot
  /\ prior = NoSnapshot
  /\ priorWas = NoSnapshot
  /\ call = NoCall
  /\ pc = "idle"

NextTiming ==
  \/ \E card \in SpellCards, player \in PlayerIds : CanCastSpell(card, player)
  \/ \E card \in AbilityCards, player \in PlayerIds, abilityText \in AbilityTexts :
       CanActivateAbility(card, player, abilityText)
  \/ \E player \in PlayerIds : CanPlayLand(player)
  \/ Return

SpecTiming == InitTiming /\ [][NextTiming]_vars

\* -------------------------------------------------- TargetingManager
\* A rules text is the sequence of its words, a full stop being a word of its
\* own that follows the word before it without a space.
LowerCase(word) ==
  CASE word = "Target" -> "target"
    [] word = "Destroy" -> "destroy"
    [] OTHER -> word

ToLowerCase(text) == [i \in DOMAIN text |-> LowerCase(text[i])]

\* the search words a word of the text contains besides itself
PartsOf(word) ==
  CASE word = "creatures" -> {"creature"}
    [] word = "non-creature" -> {"creature"}
    [] word = "players" -> {"player"}
    [] word = "untapped" -> {"tapped"}
    [] word = "controls" -> {"control"}
    [] word = "targets" -> {"target"}
    [] OTHER -> {}

WordIncludes(word, part) == part = word \/ part \in PartsOf(word)

\* text.includes(phrase), the phrase given as its words
TextIncludes(text, phrase) ==
  \E i \in 1..(Len(text) - Len(phrase) + 1) :
    /\ \A k \in 1..(Len(phrase) - 1) : text[i + k - 1] = phrase[k]
    /\ WordIncludes(text[i + Len(phrase) - 1], phrase[Len(phrase)])

\* the first index from i on that holds a full stop, or one past the end
RECURSIVE NextStop(_, _)
NextStop(text, i) ==
  IF i > Len(text) \/ text[i] = "." THEN i ELSE NextStop(text, i + 1)

RECURSIVE TargetMatches(_, _)
\* text.match(/(target\s+[^.]*)/gi) from word i on: a match starts at
\* "target" followed by a space and runs to the next full stop
TargetMatches(text, i) ==
  IF i > Len(text) THEN <<>>
  ELSE IF /\ LowerCase(text[i]) = "target"
          /\ i < Len(text)
          /\ text[i + 1] # "."
    THEN LET stop == NextStop(text, i + 1)
         IN <<SubSeq(text, i, stop - 1)>> \o TargetMatches(text, stop)
  ELSE TargetMatches(text, i + 1)

CountOfWord(word, default) ==
  CASE word = "one" -> 1
    [] word = "two" -> 2
    [] word = "three" -> 3
    [] OTHER -> default

\* the indexes at which /(\w+)\s+target/ can match: a word before "target"
CountMatches(text) ==
  {i \in 2..Len(text) : WordIncludes(text[i], "target") /\ text[i - 1] # "."}

\* the indexes at which /up to (\w+)/ can match
UpMatches(text) ==
  {i \in 1..(Len(text) - 2) :
     text[i] = "up" /\ text[i + 1] = "to" /\ text[i + 2] # "."}

Minimum(set) == CHOOSE x \in set : \A y \in set : x <= y

\* restrictions in the order parseTargetClause pushes them
RestrictionPhrases ==
  << [phrases |-> {<<"you", "control">>}, restriction |-> "you_control"],
     [phrases |-> {<<"you", "don't", "control">>, <<"an", "opponent", "controls">>},
      restriction |-> "opponent_controls"],
     [phrases |-> {<<"attacking">>}, restriction |-> "attacking"],
     [phrases |-> {<<"blocking">>}, restriction |-> "blocking"],
     [phrases |-> {<<"tapped">>}, restriction |-> "tapped"],
     [phrases |-> {<<"untapped">>}, restriction |-> "untapped"],
     [phrases |-> {<<"nonland">>}, restriction |-> "nonland"],
     [phrases |-> {<<"non-creature">>}, restriction |-> "non-creature"] >>

RECURSIVE RestrictionsFrom(_, _)
RestrictionsFrom(text, k) ==
  IF k > Len(RestrictionPhrases) THEN <<>>
  ELSE (IF \E phrase \in RestrictionPhrases[k].phrases : TextIncludes(text, phrase)
        THEN <<RestrictionPhrases[k].restriction>> ELSE <<>>)
       \o RestrictionsFrom(text, k + 1)

parseTargetClause(clause) ==
  LET text == ToLowerCase(clause)
      type ==
        IF TextIncludes(text, <<"creature">>) THEN "creature"
        ELSE IF TextIncludes(text, <<"player">>) THEN "player"
        ELSE IF TextIncludes(text, <<"planeswalker">>) THEN "planeswalker"
        ELSE IF TextIncludes(text, <<"spell">>) THEN "spell"
        ELSE IF TextIncludes(text, <<"permanent">>) THEN "permanent"
        ELSE IF TextIncludes(text, <<"card", "in">>)
                /\ TextIncludes(text, <<"graveyard">>) THEN "card_in_graveyard"
        ELSE "any"
      countWord ==
        IF CountMatches(text) = {} THEN Undefined
        ELSE <<text[Minimum(CountMatches(text)) - 1]>>
      up == countWord = <<"up">>
      upWord ==
        IF UpMatches(text) = {} THEN Undefined
        ELSE <<text[Minimum(UpMatches(text)) + 2]>>
  IN [type |-> type,
      count |-> IF countWord = Undefined THEN 1
                ELSE IF up THEN (IF upWord = Undefined THEN 1
                                 ELSE CountOfWord(upWord[1], 1))
                ELSE CountOfWord(countWord[1], 1),
      optional |-> up,
      restrictions |-> RestrictionsFrom(text, 1)]

SeqOrEmpty(optional) == IF optional = Undefined THEN <<>> ELSE optional[1]

parseTargetRequirements(card) ==
  LET targetMatches == TargetMatches(SeqOrEmpty(card.oracle_text), 1)
  IN [i \in DOMAIN targetMatches |-> parseTargetClause(targetMatches[i])]

\* Object.entries / Object.values of players and of battlefield visit the
\* keys in this order
PlayerOrder == <<"player", "ai">>

RECURSIVE Flatten(_)
Flatten(seqs) == IF seqs = <<>> THEN <<>> ELSE Head(seqs) \o Flatten(Tail(seqs))

\* zone.find(c => c.id === id), as an optional
FindById(zone, id) ==
  LET found == SelectSeq(zone, LAMBDA c : c.id = id)
  IN IF found = <<>> THEN Null ELSE <<Head(found)>>

findCardById(id, gameState) ==
  LET zones ==
        [k \in 1..2 |-> gameState.battlefield[PlayerOrder[k]]]
        \o Flatten([k \in 1..2 |->
                      <<gameState.players[PlayerOrder[k]].hand,
                        gameState.players[PlayerOrder[k]].graveyard,
                        gameState.players[PlayerOrder[k]].exile>>])
      found == FindById(Flatten(zones), id)
      stackCard == SelectSeq(gameState.stack, LAMBDA obj : obj.source.id = id)
  IN IF found # Null THEN found
     ELSE IF stackCard # <<>> THEN <<Head(stackCard).source>>
     ELSE Null

targetIsCreature(card) == card # Null /\ "creature" \in card[1].type_line
targetIsPlaneswalker(card) == card # Null /\ "planeswalker" \in card[1].type_line
targetIsLand(card) == card # Null /\ "land" \in card[1].type_line

targetExists(target, gameState) ==
  IF target.type = "player" THEN target.id \in {"player", "ai"}
  ELSE findCardById(target.id, gameState) # Null

validateRestriction(restriction, target, gameState) ==
  CASE restriction = "you_control" -> target.controller = "player"
    [] restriction = "opponent_controls" -> target.controller = "ai"
    [] restriction = "attacking" ->
         /\ gameState.combat # Undefined
         /\ \E k \in DOMAIN gameState.combat[1].attackers :
              gameState.combat[1].attackers[k].id = target.id
    [] restriction = "blocking" ->
         /\ gameState.combat # Undefined
         /\ \E k \in DOMAIN gameState.combat[1].blockers :
              gameState.combat[1].blockers[k].blocker_id = target.id
    [] restriction = "tapped" -> TRUE
    [] restriction = "untapped" -> TRUE
    [] restriction = "nonland" -> ~targetIsLand(findCardById(target.id, gameState))
    [] restriction = "non-creature" ->
         ~targetIsCreature(findCardById(target.id, gameState))
    [] OTHER -> TRUE

validateSingleTarget(requirement, target, gameState) ==
  IF ~targetExists(target, gameState) THEN FALSE
  ELSE IF requirement.type # "any" /\ requirement.type # target.type THEN FALSE
  ELSE \A k \in DOMAIN requirement.restrictions :
         validateRestriction(requirement.restrictions[k], target, gameState)

\* a validation that compares the targets with the requirements one by one
\* without comparing how many there are of each
validateTargetsNoCount(card, targets, gameState) ==
  LET requirements == parseTargetRequirements(card)
  IN \A i \in DOMAIN requirements \cap DOMAIN targets :
       validateSingleTarget(requirements[i], targets[i], gameState)

validateTargets(card, targets, gameState) ==
  LET requirements == parseTargetRequirements(card)
  IN IF Len(requirements) = 0 /\ Len(targets) = 0 THEN TRUE
     ELSE IF Len(requirements) # Len(targets) THEN FALSE
     ELSE \A i \in DOMAIN requirements :
            validateSingleTarget(requirements[i], targets[i], gameState)

Target(id, type, controller) == [id |-> id, type |-> type, controller |-> controller]

\* the loop over Object.entries(gameState.battlefield) of the three
\* battlefield searches: the cards of the type asked for, every card for
\* "permanent", each as a target of that type under its battlefield's player
BattlefieldTargets(gameState, type) ==
  Flatten([k \in 1..2 |->
    LET battlefield ==
          SelectSeq(gameState.battlefield[PlayerOrder[k]],
                    LAMBDA card : CASE type = "creature" -> targetIsCreature(<<card>>)
                                    [] type = "planeswalker" -> targetIsPlaneswalker(<<card>>)
                                    [] OTHER -> TRUE)
    IN [i \in DOMAIN battlefield |-> Target(battlefield[i].id, type, PlayerOrder[k])]])

findCreatureTargets(gameState) == BattlefieldTargets(gameState, "creature")

findPlayerTargets(gameState) ==
  <<Target("player", "player", "player"), Target("ai", "player", "ai")>>

findPlaneswalkerTargets(gameState) == BattlefieldTargets(gameState, "planeswalker")

findPermanentTargets(gameState) == BattlefieldTargets(gameState, "permanent")

findSpellTargets(gameState) ==
  [i \in DOMAIN gameState.stack |->
     Target(gameState.stack[i].id, "spell", gameState.stack[i].controller)]

findGraveyardTargets(gameState) ==
  Flatten([k \in 1..2 |->
    LET graveyard == gameState.players[PlayerOrder[k]].graveyard
    IN [i \in DOMAIN graveyard |->
          Target(graveyard[i].id, "card_in_graveyard", PlayerOrder[k])]])

findValidTargetsForRequirement(requirement, gameState, controller) ==
  LET targets ==
        CASE requirement.type = "creature" -> findCreatureTargets(gameState)
          [] requirement.type = "player" -> findPlayerTargets(gameState)
          [] requirement.type = "planeswalker" -> findPlaneswalkerTargets(gameState)
          [] requirement.type = "permanent" -> findPermanentTargets(gameState)
          [] requirement.type = "spell" -> findSpellTargets(gameState)
          [] requirement.type = "card_in_graveyard" -> findGraveyardTargets(gameState)
          [] OTHER -> <<>>
  IN SelectSeq(targets, LAMBDA target :
       \A k \in DOMAIN requirement.restrictions :
         validateRestriction(requirement.restrictions[k], target, gameState))

getValidTargets(card, gameState, player) ==
  LET requirements == parseTargetRequirements(card)
  IN Flatten([i \in DOMAIN requirements |->
                findValidTargetsForRequirement(requirements[i], gameState, player)])

\* ------------------------------------- StateBasedActionManager: the scan
\* A permanent, for the scan, is a record [id, name, type_line, oracle_text,
\* toughness, attached_to]: the name is the sequence of its faces (the parts
\* around " // "), the toughness an optional string.  attached_to is what the
\* game has the permanent attached to; MTGCard has no field for it and the
\* scan reads none.

\* parseInt(string, 10) of the toughness strings; <<>> stands for NaN
ParseInt(string) ==
  CASE string = "0" -> <<0>>
    [] string = "1" -> <<1>>
    [] string = "2" -> <<2>>
    [] string = "3" -> <<3>>
    [] string = "-1" -> <<-1>>
    [] string = "1+*" -> <<1>>
    [] OTHER -> <<>>

isCreature(card) == "creature" \in card.type_line
isPlaneswalker(card) == "planeswalker" \in card.type_line
isLegendary(card) == "legendary" \in card.type_line
isWorld(card) == "world" \in card.type_line
isAura(card) == "enchantment" \in card.type_line /\ "aura" \in card.type_line
isEquipment(card) == "artifact" \in card.type_line /\ "equipment" \in card.type_line

countPoisonCounters(player) == 0

\* card.toughness ? parseInt(card.toughness, 10) || 0 : 0
getCreatureToughness(card) ==
  IF card.toughness = Undefined \/ card.toughness = <<"">> THEN 0
  ELSE IF ParseInt(card.toughness[1]) = <<>> THEN 0
  ELSE ParseInt(card.toughness[1])[1]

getCreatureDamage(card) == 0

hasDeathtouch(card) == Includes(TextOrEmpty(card.oracle_text), "deathtouch")

\* the number in the first "[n]" of a text, for the texts that hold one
BracketValue == [x \in {"[+1]", "[0]", "[-3]"} |->
                   CASE x = "[+1]" -> 1 [] x = "[0]" -> 0 [] x = "[-3]" -> 0 - 3]

getPlaneswalkerLoyalty(card) ==
  LET brackets == TextOrEmpty(card.oracle_text) \cap DOMAIN BracketValue
  IN IF brackets = {} THEN 0 ELSE BracketValue[CHOOSE x \in brackets : TRUE]

\* card.name.split(' // ')[0] || card.name
getLegendaryName(card) == IF Head(card.name) # "" THEN <<Head(card.name)>> ELSE card.name

getAttachmentTarget(card) == Null

isValidAttachmentTarget(aura, target, gameState) == TRUE

isValidEquipmentTarget(equipment, target, gameState) == isCreature(target)

StateBasedAction(type, affectedCards, affectedPlayer) ==
  [type |-> type, affectedCards |-> affectedCards, affectedPlayer |-> affectedPlayer]

checkPlayerStateActions(gameState) ==
  Flatten([k \in 1..2 |->
    LET playerKey == PlayerOrder[k]
        player == gameState.players[playerKey]
    IN (IF player.life <= 0
        THEN <<StateBasedAction("player_loses_life", <<>>, <<playerKey>>)>> ELSE <<>>)
       \o (IF Len(player.library) = 0
           THEN <<StateBasedAction("player_loses_library", <<>>, <<playerKey>>)>>
           ELSE <<>>)
       \o (IF countPoisonCounters(player) >= 10
           THEN <<StateBasedAction("player_loses_poison", <<>>, <<playerKey>>)>>
           ELSE <<>>)])

\* a scan that lets a creature with toughness 0 live
creatureActionsBelowZero(creature) ==
  IF isCreature(creature) /\ getCreatureToughness(creature) < 0
  THEN <<StateBasedAction("creature_dies_toughness", <<creature>>, Undefined)>>
  ELSE <<>>

\* the actions the body of the creature loop pushes for one battlefield card
creatureActions(creature) ==
  IF ~isCreature(creature) THEN <<>>
  ELSE LET toughness == getCreatureToughness(creature)
           damage == getCreatureDamage(creature)
       IN (IF toughness <= 0
           THEN <<StateBasedAction("creature_dies_toughness", <<creature>>, Undefined)>>
           ELSE IF damage >= toughness
           THEN <<StateBasedAction("creature_dies_damage", <<creature>>, Undefined)>>
           ELSE <<>>)
          \o (IF hasDeathtouch(creature) /\ damage > 0
              THEN <<StateBasedAction("creature_dies_deathtouch", <<creature>>, Undefined)>>
              ELSE <<>>)

\* the cards of both battlefields in the order the scan loops visit them
AllPermanents(gameState) ==
  Flatten([k \in 1..2 |-> gameState.battlefield[PlayerOrder[k]]])

checkCreatureStateActions(gameState) ==
  LET permanents == AllPermanents(gameState)
  IN Flatten([i \in DOMAIN permanents |-> creatureActions(permanents[i])])

checkPlaneswalkerStateActions(gameState) ==
  LET permanents == AllPermanents(gameState)
  IN Flatten([i \in DOMAIN permanents |->
       IF isPlaneswalker(permanents[i]) /\ getPlaneswalkerLoyalty(permanents[i]) <= 0
       THEN <<StateBasedAction("planeswalker_dies", <<permanents[i]>>, Undefined)>>
       ELSE <<>>])

\* a legend rule that slates every instance of a repeated name
legendActionsAll(battlefield) ==
  LET legends == SelectSeq(battlefield, isLegendary)
  IN Flatten([i \in DOMAIN legends |->
       IF \E j \in DOMAIN legends :
            j # i /\ getLegendaryName(legends[j]) = getLegendaryName(legends[i])
       THEN <<StateBasedAction("legend_rule_violation", <<legends[i]>>, Undefined)>>
       ELSE <<>>])

\* the legend rule on one battlefield: legendsByName keeps the names in the
\* order they are first met and, under each, its permanents in order
legendActions(battlefield) ==
  LET legends == SelectSeq(battlefield, isLegendary)
      firsts == {i \in DOMAIN legends :
                   \A j \in 1..(i - 1) :
                     getLegendaryName(legends[j]) # getLegendaryName(legends[i])}
  IN Flatten([i \in DOMAIN legends |->
       IF i \notin firsts THEN <<>>
       ELSE LET group == SelectSeq(legends, LAMBDA c :
                           getLegendaryName(c) = getLegendaryName(legends[i]))
            IN IF Len(group) > 1
               THEN <<StateBasedAction("legend_rule_violation", Tail(group), Undefined)>>
               ELSE <<>>])

checkLegendRuleActions(gameState) ==
  Flatten([k \in 1..2 |-> legendActions(gameState.battlefield[PlayerOrder[k]])])

checkWorldRuleActions(gameState) ==
  LET worldPermanents == SelectSeq(AllPermanents(gameState), isWorld)
  IN IF Len(worldPermanents) > 1
     THEN <<StateBasedAction("world_rule_violation", worldPermanents, Undefined)>>
     ELSE <<>>

checkAuraStateActions(gameState) ==
  LET permanents == AllPermanents(gameState)
  IN Flatten([i \in DOMAIN permanents |->
       LET aura == permanents[i]
           attachedTo == getAttachmentTarget(aura)
       IN IF isAura(aura)
             /\ (\/ attachedTo = Null
                 \/ ~isValidAttachmentTarget(aura, attachedTo[1], gameState))
          THEN <<StateBasedAction("aura_unattached", <<aura>>, Undefined)>>
          ELSE <<>>])

checkEquipmentStateActions(gameState) ==
  LET permanents == AllPermanents(gameState)
  IN Flatten([i \in DOMAIN permanents |->
       LET equipment == permanents[i]
           attachedTo == getAttachmentTarget(equipment)
       IN IF isEquipment(equipment)
             /\ attachedTo # Null
             /\ ~isValidEquipmentTarget(equipment, attachedTo[1], gameState)
          THEN <<StateBasedAction("equipment_unattached", <<equipment>>, Undefined)>>
          ELSE <<>>])

checkStateBasedActions(gameState) ==
  checkPlayerStateActions(gameState)
  \o checkCreatureStateActions(gameState)
  \o checkPlaneswalkerStateActions(gameState)
  \o checkLegendRuleActions(gameState)
  \o checkWorldRuleActions(gameState)
  \o checkAuraStateActions(gameState)
  \o checkEquipmentStateActions(gameState)

\* ---------------------------------------------------- MTGRulesEngine
Colors == {"white", "blue", "black", "red", "green", "colorless"}

NoMana == [c \in Colors |-> 0]

RECURSIVE SumOver(_, _)
\* Object.values(pool).reduce((sum, val) => sum + val, 0)
SumOver(pool, colors) ==
  IF colors = {} THEN 0
  ELSE LET c == CHOOSE x \in colors : TRUE
       IN pool[c] + SumOver(pool, colors \ {c})

ColorOfSymbol ==
  [w |-> "white", u |-> "blue", b |-> "black", r |-> "red", g |-> "green"]

DigitValue ==
  [x \in {"0", "1", "2", "3", "4", "5", "6", "7", "8", "9"} |->
     CASE x = "0" -> 0 [] x = "1" -> 1 [] x = "2" -> 2 [] x = "3" -> 3
       [] x = "4" -> 4 [] x = "5" -> 5 [] x = "6" -> 6 [] x = "7" -> 7
       [] x = "8" -> 8 [] x = "9" -> 9]

RECURSIVE parseSymbols(_, _)
\* the loop of parseManaCost over the characters left when the braces are
\* removed, each already in lower case
parseSymbols(symbols, cost) ==
  IF symbols = <<>> THEN cost
  ELSE LET symbol == Head(symbols)
       IN parseSymbols(Tail(symbols),
            IF symbol \in DOMAIN ColorOfSymbol
              THEN [cost EXCEPT ![ColorOfSymbol[symbol]] = @ + 1]
            ELSE IF symbol \in DOMAIN DigitValue
              THEN [cost EXCEPT !["colorless"] = @ + DigitValue[symbol]]
            ELSE cost)

parseManaCost(manaCost) == parseSymbols(manaCost, NoMana)

\* a payment is a Partial<ManaPool>; a colour it leaves out reads as 0
\* everywhere it is read, so it is kept as a full pool
validateManaCost(card, payment, availableMana) ==
  IF card.mana_cost = Undefined THEN TRUE
  ELSE LET requiredMana == parseManaCost(card.mana_cost[1])
           totalRequired == SumOver(requiredMana, Colors)
           totalPayment == SumOver(payment, Colors)
           totalAvailable == SumOver(availableMana, Colors)
       IN IF totalPayment # totalRequired \/ totalPayment > totalAvailable
          THEN FALSE
          ELSE \A color \in Colors :
                 ~ \/ payment[color] > availableMana[color]
                   \/ color # "colorless" /\ payment[color] < requiredMana[color]

\* the occurrences of "target" in a text, each of these phrases holding one
TargetPhrases == {"target creature", "target player"}

MatchTargetCount(text) == Cardinality(text \cap TargetPhrases)

engineValidateTargets(card, targets, gameState) ==
  IF TextOrEmpty(card.oracle_text) = {} THEN TRUE
  ELSE Len(targets) = MatchTargetCount(card.oracle_text[1])

isLand(card) == "land" \in card.type_line
isInstant(card) == "instant" \in card.type_line
isSorcery(card) == "sorcery" \in card.type_line
isPermanent(card) ==
  card.type_line \cap {"creature", "artifact", "enchantment", "planeswalker", "land"} # {}

canCastAtCurrentTiming(card, gameState) ==
  IF isInstant(card) THEN TRUE
  ELSE IF isSorcery(card) \/ isPermanent(card)
    THEN gameState.phase \in {"main1", "main2"} /\ Len(gameState.stack) = 0
  ELSE FALSE

canPlayLandAtCurrentTiming(gameState) ==
  gameState.phase \in {"main1", "main2"} /\ Len(gameState.stack) = 0

\* player.hand.find(card => card.id === cardId) || null
findCardInHand(cardId, player) ==
  LET found == SelectSeq(player.hand, LAMBDA card : card.id = cardId)
  IN IF found = <<>> THEN Null ELSE <<Head(found)>>

ValidResult == [isValid |-> TRUE, errors |-> <<>>, warnings |-> <<>>]

Fail(result, error) ==
  [result EXCEPT !.isValid = FALSE, !.errors = Append(@, error)]

FailIf(result, failed, error) == IF failed THEN Fail(result, error) ELSE result

validateSpellCast(action, gameState, result) ==
  IF action.cardId = Undefined
    THEN Fail(result, "Card ID is required for casting spells")
  ELSE
    LET player == gameState.players[action.player]
        found == findCardInHand(action.cardId[1], player)
    IN IF found = Null THEN Fail(result, "Card not found in player hand")
       ELSE
         LET card == found[1]
             r1 == FailIf(result, ~canCastAtCurrentTiming(card, gameState),
                          "Cannot cast ... at current timing")
             r2 == FailIf(r1, ~validateManaCost(card,
                                 IF action.manaPayment = Undefined THEN NoMana
                                 ELSE action.manaPayment[1],
                                 player.mana_pool),
                          "Insufficient mana to cast ...")
         IN FailIf(r2, /\ action.targets # Undefined
                       /\ ~engineValidateTargets(card, action.targets[1], gameState),
                   "Invalid targets for ...")

validateLandPlay(action, gameState, result) ==
  IF action.cardId = Undefined
    THEN Fail(result, "Card ID is required for playing lands")
  ELSE
    LET player == gameState.players[action.player]
        found == findCardInHand(action.cardId[1], player)
    IN IF found = Null THEN Fail(result, "Card not found in player hand")
       ELSE
         LET r1 == FailIf(result, ~isLand(found[1]), "... is not a land")
         IN FailIf(r1, ~canPlayLandAtCurrentTiming(gameState),
                   "Cannot play land at current timing")

\* a validator that records the unfinished ability check as a violation
validateAbilityActivationAsError(action, gameState, result) ==
  [result EXCEPT !.errors =
     Append(@, "Ability activation validation not fully implemented")]

validateAbilityActivation(action, gameState, result) ==
  [result EXCEPT !.warnings =
     Append(@, "Ability activation validation not fully implemented")]

validateAttackerDeclaration(action, gameState, result) ==
  LET r1 == FailIf(result,
                   gameState.phase # "combat" \/ gameState.step # "declare_attackers",
                   "Can only declare attackers during declare attackers step")
  IN FailIf(r1, gameState.active_player # action.player,
            "Only active player can declare attackers")

\* a validator that lets the active player block
validateBlockerDeclarationByActive(action, gameState, result) ==
  LET r1 == FailIf(result,
                   gameState.phase # "combat" \/ gameState.step # "declare_blockers",
                   "Can only declare blockers during declare blockers step")
  IN FailIf(r1, gameState.active_player # action.player,
            "Only defending player can declare blockers")

validateBlockerDeclaration(action, gameState, result) ==
  LET r1 == FailIf(result,
                   gameState.phase # "combat" \/ gameState.step # "declare_blockers",
                   "Can only declare blockers during declare blockers step")
      defendingPlayer == IF gameState.active_player = "player" THEN "ai" ELSE "player"
  IN FailIf(r1, defendingPlayer # action.player,
            "Only defending player can declare blockers")

validatePriorityPass(action, gameState, result) ==
  FailIf(result, gameState.priority # action.player, "Player does not have priority")

\* the one statement of the validators that can throw: player.hand of a
\* player the snapshot does not have
ValidationThrows(action, gameState) ==
  /\ action.type \in {"cast_spell", "play_land"}
  /\ action.cardId # Undefined
  /\ action.player \notin DOMAIN gameState.players

validateAction(action, gameState) ==
  IF ValidationThrows(action, gameState)
    THEN Fail(ValidResult, "Validation error: ...")
  ELSE
  CASE action.type = "cast_spell" -> validateSpellCast(action, gameState, ValidResult)
    [] action.type = "play_land" -> validateLandPlay(action, gameState, ValidResult)
    [] action.type = "activate_ability" ->
         validateAbilityActivation(action, gameState, ValidResult)
    [] action.type = "declare_attackers" ->
         validateAttackerDeclaration(action, gameState, ValidResult)
    [] action.type = "declare_blockers" ->
         validateBlockerDeclaration(action, gameState, ValidResult)
    [] action.type = "pass_priority" ->
         validatePriorityPass(action, gameState, ValidResult)
    [] OTHER -> Fail(ValidResult, "Unknown action type: ...")

engineIsCreature(card) == "creature" \in card.type_line

engineGetCreatureToughness(card) ==
  IF card.toughness = Undefined \/ card.toughness = <<"">> THEN 0
  ELSE IF ParseInt(card.toughness[1]) = <<>> THEN 0
  ELSE ParseInt(card.toughness[1])[1]

\* the messages of MTGRulesEngine.checkStateBasedActions, each kept as the
\* kind of the message and the player or the card it names
engineCheckStateBasedActions(gameState) ==
  Flatten([k \in 1..2 |->
    LET playerKey == PlayerOrder[k]
        player == gameState.players[playerKey]
    IN (IF player.life <= 0
        THEN <<[message |-> "loses the game due to 0 or less life",
                player |-> playerKey]>> ELSE <<>>)
       \o (IF Len(player.library) = 0
           THEN <<[message |-> "loses the game by drawing from empty library",
                   player |-> playerKey]>> ELSE <<>>)])
  \o Flatten([k \in 1..2 |->
       LET playerKey == PlayerOrder[k]
           battlefield == gameState.battlefield[playerKey]
       IN Flatten([i \in DOMAIN battlefield |->
            IF engineIsCreature(battlefield[i])
               /\ engineGetCreatureToughness(battlefield[i]) <= 0
            THEN <<[message |-> "is put into graveyard (0 toughness)",
                    player |-> playerKey, card |-> battlefield[i]]>>
            ELSE <<>>])])

\* ------------------------------------------------- validateAction calls
\* the card a validateAction call is asked about
EngineTexts == {Undefined, <<{"flash"}>>, <<{"target creature"}>>}

EngineCosts == {Undefined, <<(<<"1", "r">>)>>}

EngineCards ==
  [id : {1}, type_line : TypeLines, oracle_text : EngineTexts, mana_cost : EngineCosts]

EnginePlayer(hand) ==
  [hand |-> hand, library |-> <<>>, graveyard |-> <<>>, exile |-> <<>>,
   life |-> 20, mana_pool |-> [NoMana EXCEPT !["red"] = 2, !["white"] = 1]]

\* snapshots in which both players hold the same one card
EngineStates ==
  {[players |-> [p \in PlayerIds |-> EnginePlayer(<<card>>)],
    battlefield |-> [p \in PlayerIds |-> <<>>],
    stack |-> [i \in 1..n |-> StackObject(i + 1, "ai")],
    active_player |-> active, phase |-> phase, step |-> step,
    priority |-> priority, combat |-> Undefined] :
     card \in EngineCards, n \in 0..MaxStack, active \in PlayerIds,
     priority \in PlayerIds, phase \in Phases,
     step \in {"none", "declare_attackers", "declare_blockers"}}

\* card 1 is in hand, card 2 is not
CardIds == {Undefined, <<1>>, <<2>>}

ManaPayments == {Undefined, <<[NoMana EXCEPT !["red"] = 2]>>}

ChosenTargets == {Undefined, <<(<<"ai">>)>>}

\* payments of other totals and colours, for the card in hand
OtherPayments ==
  {<<[NoMana EXCEPT ![c] = 1]>> : c \in {"red", "white"}}
  \cup {<<[NoMana EXCEPT !["red"] = 1, ![c] = 1]>> : c \in {"white", "green", "colorless"}}
  \cup {<<[NoMana EXCEPT !["red"] = 3]>>}

\* an empty list of targets and one too long for every text
OtherTargets == {<<(<<>>)>>, <<(<<"ai", "ai">>)>>}

GameAction(type, player, cardId, manaPayment, targets) ==
  [type |-> type, player |-> player, cardId |-> cardId,
   manaPayment |-> manaPayment, targets |-> targets]

GameActions ==
  {GameAction("cast_spell", player, cardId, manaPayment, targets) :
     player \in PlayerIds, cardId \in CardIds, manaPayment \in ManaPayments,
     targets \in ChosenTargets}
  \cup
  {GameAction("cast_spell", player, <<1>>, manaPayment, Undefined) :
     player \in PlayerIds, manaPayment \in OtherPayments}
  \cup
  {GameAction("cast_spell", player, <<1>>, manaPayment, targets) :
     player \in PlayerIds, manaPayment \in ManaPayments, targets \in OtherTargets}
  \cup
  {GameAction(type, "nobody", <<1>>, Undefined, Undefined) :
     type \in {"cast_spell", "play_land", "pass_priority"}}
  \cup
  {GameAction("play_land", player, cardId, Undefined, Undefined) :
     player \in PlayerIds, cardId \in CardIds}
  \cup
  {GameAction(type, player, Undefined, Undefined, Undefined) :
     type \in {"activate_ability", "declare_attackers", "declare_blockers",
               "pass_priority", "concede"},
     player \in PlayerIds}

ValidateAction(action) ==
  Query("validateAction", [action |-> action], action.player,
        validateAction(action, gs))

InitEngine ==
  /\ gs \in EngineStates
  /\ before = NoSnapshot
  /\ prior = NoSnapshot
  /\ priorWas = NoSnapshot
  /\ call = NoCall
  /\ pc = "idle"

NextEngine ==
  \/ \E action \in GameActions : ValidateAction(action)
  \/ Return

SpecEngine == InitEngine /\ [][NextEngine]_vars

\* ------------------------------------------------------ priority queries
MaxLog == 2            \* most events in the game log of a priority query

GameEvent(type, player) == [type |-> type, player |-> player]

GameEvents ==
  {GameEvent(type, player) : type \in {"pass_priority", "cast_spell"},
                             player \in PlayerIds}

RECURSIVE SeqsUpTo(_, _)
\* the sequences over a set of at most n elements
SeqsUpTo(set, n) ==
  IF n = 0 THEN {<<>>}
  ELSE LET shorter == SeqsUpTo(set, n - 1)
       IN shorter \cup {Append(q, x) : q \in shorter, x \in set}

\* the snapshots a priority query is asked about, with the events the caller
\* has logged so far
PriorityStates ==
  {[players |-> [p \in PlayerIds |-> EmptyPlayer],
    battlefield |-> [p \in PlayerIds |-> <<>>],
    stack |-> [i \in 1..n |-> StackObject(i, "ai")],
    active_player |-> active, phase |-> phase, step |-> "none",
    priority |-> priority, combat |-> Undefined, game_log |-> log] :
     n \in 0..MaxStack, active \in PlayerIds, priority \in PlayerIds,
     phase \in Phases, log \in SeqsUpTo(GameEvents, MaxLog)}

GetNextPriorityPlayer ==
  Query("getNextPriorityPlayer", [card |-> Undefined], gs.priority,
        getNextPriorityPlayer(gs))

ShouldAdvancePhase ==
  Query("shouldAdvancePhase", [card |-> Undefined], gs.priority,
        shouldAdvancePhase(gs))

InitPriority ==
  /\ gs \in PriorityStates
  /\ before = NoSnapshot
  /\ prior = NoSnapshot
  /\ priorWas = NoSnapshot
  /\ call = NoCall
  /\ pc = "idle"

NextPriority ==
  \/ GetNextPriorityPlayer
  \/ ShouldAdvancePhase
  \/ Return

SpecPriority == InitPriority /\ [][NextPriority]_vars

\* ----------------------------------------------------- targeting queries
MaxTargets == 2        \* most targets chosen in a validateTargets call

Permanent(id, type) == [id |-> id, type_line |-> {type}]

\* a rules text for each clause wording parseTargetClause tells apart
TargetingTexts ==
  {Undefined,
   <<(<<"Destroy", "all", "creatures", ".">>)>>,
   <<(<<"Destroy", "target", "creature", ".">>)>>,
   <<(<<"Target", "creature", "you", "control", "gains", "flying", ".">>)>>,
   <<(<<"Destroy", "target", "creature", "an", "opponent", "controls", ".">>)>>,
   <<(<<"Destroy", "two", "target", "creatures", ".">>)>>,
   <<(<<"Destroy", "three", "target", "creatures", ".">>)>>,
   <<(<<"deals", "damage", "to", "up", "to", "two", "target", "creatures", ".">>)>>,
   <<(<<"Target", "player", "discards", ".", "Destroy", "target", "nonland",
        "permanent", ".">>)>>,
   <<(<<"Destroy", "target", "attacking", "creature", ".">>)>>,
   <<(<<"counter", "target", "spell", ".">>)>>,
   <<(<<"exile", "target", "card", "in", "a", "graveyard", ".">>)>>,
   <<(<<"deals", "damage", "to", "any", "target", ".">>)>>}

TargetingCards == [id : {"spell"}, type_line : {{"instant"}}, oracle_text : TargetingTexts]

\* what the two battlefields hold
Boards ==
  {[player |-> <<>>, ai |-> <<>>],
   [player |-> <<Permanent("c1", "creature")>>, ai |-> <<>>],
   [player |-> <<>>, ai |-> <<Permanent("c3", "creature")>>],
   [player |-> <<Permanent("c1", "creature"), Permanent("l2", "land")>>,
    ai |-> <<Permanent("c3", "creature")>>],
   [player |-> <<Permanent("l2", "land"), Permanent("c1", "creature")>>,
    ai |-> <<Permanent("c3", "creature"), Permanent("c4", "creature")>>]}

TargetingStates ==
  {[players |-> [p \in PlayerIds |->
                   [EmptyPlayer EXCEPT !.graveyard = graveyard[p]]],
    battlefield |-> battlefield,
    stack |-> stack,
    active_player |-> "player", phase |-> "main1", step |-> "none",
    priority |-> "player", combat |-> combat] :
     battlefield \in Boards,
     graveyard \in {[player |-> <<>>, ai |-> <<>>],
                    [player |-> <<Permanent("c5", "creature")>>, ai |-> <<>>]},
     stack \in {<<>>, <<[id |-> "s6", source |-> Permanent("c6", "instant"),
                         controller |-> "ai"]>>},
     combat \in {Undefined,
                 <<[attackers |-> <<[id |-> "c1"]>>, blockers |-> <<>>]>>}}

\* targets a caller may choose: each names an id, the type it is chosen as,
\* and the controller the caller states
TargetChoices ==
  {Target("player", "player", "player"), Target("ai", "player", "ai"),
   Target("c1", "creature", "player"), Target("c1", "creature", "ai"),
   Target("c3", "creature", "ai"), Target("c9", "creature", "player"),
   Target("l2", "permanent", "player"), Target("c1", "permanent", "player"),
   Target("c5", "card_in_graveyard", "player"), Target("c6", "spell", "ai")}

ParseTargetRequirements ==
  /\ pc = "idle"
  /\ \E card \in TargetingCards :
       Query("parseTargetRequirements", [card |-> card], "player",
             parseTargetRequirements(card))

ValidateTargets ==
  /\ pc = "idle"
  /\ \E card \in TargetingCards, targets \in SeqsUpTo(TargetChoices, MaxTargets) :
       Query("validateTargets", [card |-> card, targets |-> targets], "player",
             validateTargets(card, targets, gs))

GetValidTargets ==
  /\ pc = "idle"
  /\ \E card \in TargetingCards, player \in PlayerIds :
       Query("getValidTargets", [card |-> card], player,
             getValidTargets(card, gs, player))

InitTargeting ==
  /\ gs \in TargetingStates
  /\ before = NoSnapshot
  /\ prior = NoSnapshot
  /\ priorWas = NoSnapshot
  /\ call = NoCall
  /\ pc = "idle"

NextTargeting ==
  \/ ParseTargetRequirements
  \/ ValidateTargets
  \/ GetValidTargets
  \/ Return

SpecTargeting == InitTargeting /\ [][NextTargeting]_vars

\* ------------------------------------------------------------ scan calls
MaxPermanents == 3     \* most permanents on the player's battlefield

ScanCard(id, name, types, toughness, text, attachedTo) ==
  [id |-> id, name |-> name, type_line |-> types, toughness |-> toughness,
   oracle_text |-> text, attached_to |-> attachedTo]

\* the permanents the player's battlefield is drawn from
PlayerPermanents ==
  {ScanCard("bear", <<"Bear">>, {"creature"}, <<"2">>, Undefined, Undefined),
   ScanCard("wall", <<"Wall">>, {"creature"}, <<"0">>, Undefined, Undefined),
   ScanCard("a1", <<"Ayara">>, {"legendary", "creature"}, <<"3">>, Undefined, Undefined),
   ScanCard("a2", <<"Ayara", "Furnace Queen">>, {"legendary", "creature"}, <<"1">>,
            Undefined, Undefined),
   ScanCard("aura", <<"Pacifism">>, {"enchantment", "aura"}, Undefined, Undefined,
            <<"bear">>),
   ScanCard("sword", <<"Sword">>, {"artifact", "equipment"}, Undefined, Undefined,
            <<"bear">>)}

\* the permanents the opponent's one-card battlefield is drawn from
OpponentPermanents ==
  {ScanCard("a3", <<"Ayara">>, {"legendary", "creature"}, <<"3">>, Undefined, Undefined),
   ScanCard("imp", <<"Imp">>, {"creature"}, <<"-1">>, <<{"deathtouch"}>>, Undefined),
   ScanCard("pw", <<"Jace">>, {"legendary", "planeswalker"}, Undefined, <<{"[+1]"}>>,
            Undefined)}

ScanPlayer(life, library) ==
  [EmptyPlayer EXCEPT !.library = library] @@ [life |-> life]

ScanStates ==
  {[players |-> [p \in PlayerIds |-> ScanPlayer(life[p], library[p])],
    battlefield |-> [player |-> mine, ai |-> theirs],
    stack |-> <<>>,
    active_player |-> "player", phase |-> "main1", step |-> "none",
    priority |-> "player", combat |-> Undefined] :
     life \in [PlayerIds -> {0, 20}],
     library \in [PlayerIds -> {<<>>, <<1>>}],
     mine \in SeqsUpTo(PlayerPermanents, MaxPermanents),
     theirs \in {<<>>} \cup {<<c>> : c \in OpponentPermanents}}

\* a scan reads the snapshot the caller holds and returns its findings
Scan(op, result) ==
  /\ pc = "idle"
  /\ call' = [op |-> op, result |-> result]
  /\ before' = gs
  /\ pc' = "returned"
  /\ UNCHANGED <<gs, prior, priorWas>>

CheckStateBasedActions == Scan("checkStateBasedActions", checkStateBasedActions(gs))

EngineCheckStateBasedActions ==
  Scan("MTGRulesEngine.checkStateBasedActions", engineCheckStateBasedActions(gs))

InitScan ==
  /\ gs \in ScanStates
  /\ before = NoSnapshot
  /\ prior = NoSnapshot
  /\ priorWas = NoSnapshot
  /\ call = NoCall
  /\ pc = "idle"

NextScan ==
  \/ CheckStateBasedActions
  \/ EngineCheckStateBasedActions
  \/ Return

SpecScan == InitScan /\ [][NextScan]_vars

\* ------------------------------------------------- scan-and-apply loop
\* The execution half of StateBasedActionManager on snapshots whose cards
\* are records: Array.prototype.findIndex(c => c.id === card.id), 1-based
FindIndexById(arr, id) ==
  IF \E i \in DOMAIN arr : arr[i].id = id
  THEN CHOOSE i \in DOMAIN arr :
         arr[i].id = id /\ \A j \in 1..(i - 1) : arr[j].id # id
  ELSE 0

\* one iteration of the outer loop of moveCardsToGraveyard on card records
graveyardMove(card, gameState) ==
  LET ip == FindIndexById(gameState.battlefield["player"], card.id)
      ia == FindIndexById(gameState.battlefield["ai"], card.id)
  IN IF ip # 0
     THEN [gameState EXCEPT !.battlefield["player"] = RemoveAt(@, ip),
                            !.players["player"].graveyard = Push(@, card)]
     ELSE IF ia # 0
     THEN [gameState EXCEPT !.battlefield["ai"] = RemoveAt(@, ia),
                            !.players["ai"].graveyard = Push(@, card)]
     ELSE gameState

\* a move that stops after the first card of the list
graveyardMovesFirstOnly(cards, gameState) ==
  IF cards = <<>> THEN gameState ELSE graveyardMove(Head(cards), gameState)

RECURSIVE graveyardMoves(_, _)
graveyardMoves(cards, gameState) ==
  IF cards = <<>> THEN gameState
  ELSE graveyardMoves(Tail(cards), graveyardMove(Head(cards), gameState))

executeScanAction(action, gameState) ==
  IF action.type \in GraveyardBound
    THEN graveyardMoves(action.affectedCards, gameState)
  ELSE IF action.type = "equipment_unattached"
    THEN unattachEquipment(action.affectedCards, gameState)
  ELSE gameState

\* executeStateBasedActions on a snapshot of card records: the result is a
\* fresh value, the input is left as it was
RECURSIVE executeScanActions(_, _)
executeScanActions(actions, gameState) ==
  IF actions = <<>> THEN gameState
  ELSE executeScanActions(Tail(actions), executeScanAction(Head(actions), gameState))

\* one turn of the caller's loop
\*   while ((actions = checkStateBasedActions(state)).length > 0)
\*     state = executeStateBasedActions(actions, state)
LoopPass ==
  /\ pc = "idle"
  /\ checkStateBasedActions(gs) # <<>>
  /\ call' = [op |-> "loop", args |-> checkStateBasedActions(gs)]
  /\ before' = gs
  /\ gs' = executeScanActions(checkStateBasedActions(gs), gs)
  /\ pc' = "returned"
  /\ UNCHANGED <<prior, priorWas>>

\* snapshots with world permanents on one battlefield or on both
WorldStates ==
  LET w1 == ScanCard("w1", <<"Crossroads">>, {"world", "enchantment"}, Undefined,
                     Undefined, Undefined)
      w2 == ScanCard("w2", <<"Chains">>, {"world", "enchantment"}, Undefined,
                     Undefined, Undefined)
      bear == ScanCard("bear", <<"Bear">>, {"creature"}, <<"2">>, Undefined, Undefined)
  IN {[players |-> [p \in PlayerIds |-> ScanPlayer(life, <<1>>)],
       battlefield |-> [player |-> mine, ai |-> theirs],
       stack |-> <<>>,
       active_player |-> "player", phase |-> "main1", step |-> "none",
       priority |-> "player", combat |-> Undefined] :
        life \in {0, 20},
        mine \in {<<w1>>, <<w1, bear>>, <<bear, w1, w2>>},
        theirs \in {<<>>, <<w2>>}}

\* the snapshots the loop is started on
LoopStates == ScanStates \cup WorldStates

\* the caller takes up the snapshot the loop is to settle
StartLoop ==
  /\ pc = "start"
  /\ gs' \in LoopStates
  /\ pc' = "idle"
  /\ UNCHANGED <<before, prior, priorWas, call>>

InitLoop ==
  /\ gs = NoSnapshot
  /\ before = NoSnapshot
  /\ prior = NoSnapshot
  /\ priorWas = NoSnapshot
  /\ call = NoCall
  /\ pc = "start"

NextLoop ==
  \/ StartLoop
  \/ LoopPass
  \/ Return

\* ENABLED <<LoopPass>>_vars: a pass always changes pc
LoopPassEnabled == pc = "idle" /\ checkStateBasedActions(gs) # <<>>

\* WF_vars(LoopPass), with its enabling condition written out
FairLoopPass == []<>~LoopPassEnabled \/ []<><<LoopPass>>_vars

\* the loop is one thread of control: a turn that can be taken is taken
SpecLoop ==
  InitLoop /\ [][NextLoop]_vars
  /\ WF_vars(StartLoop) /\ WF_vars(Return) /\ FairLoopPass

\* ------------------------------------------------------ format legality
MaxEntries == 3     \* most entries of a mainboard

\* String.prototype.toLowerCase on the format names and card names in use
LowerCaseName(name) ==
  CASE name = "Standard" -> "standard"
    [] name = "Commander" -> "commander"
    [] name = "Forest" -> "forest"
    [] name = "Lightning Bolt" -> "lightning bolt"
    [] name = "Alesha" -> "alesha"
    [] name = "Black Lotus" -> "black lotus"
    [] OTHER -> name

getFormatRules(format) ==
  LET formatLower == LowerCaseName(format)
  IN CASE formatLower \in {"standard", "modern", "legacy", "vintage", "pauper"} ->
            [minDeckSize |-> 60, maxDeckSize |-> Undefined, exactDeckSize |-> Undefined,
             maxCopies |-> 4, commanderRequired |-> FALSE]
       [] formatLower \in {"commander", "edh"} ->
            [minDeckSize |-> 100, maxDeckSize |-> Undefined, exactDeckSize |-> <<100>>,
             maxCopies |-> 1, commanderRequired |-> TRUE]
       [] formatLower \in {"limited", "draft", "sealed"} ->
            [minDeckSize |-> 40, maxDeckSize |-> Undefined, exactDeckSize |-> Undefined,
             maxCopies |-> 99, commanderRequired |-> FALSE]
       [] OTHER ->
            [minDeckSize |-> 60, maxDeckSize |-> Undefined, exactDeckSize |-> Undefined,
             maxCopies |-> 4, commanderRequired |-> FALSE]

isBasicLand(cardName) ==
  LowerCaseName(cardName) \in {"plains", "island", "swamp", "mountain", "forest", "wastes"}

hasCommander(deck) ==
  \E i \in DOMAIN deck.mainboard :
     LET deckCard == deck.mainboard[i]
     IN /\ isLegendary(deckCard.card)
        /\ (isCreature(deckCard.card) \/ isPlaneswalker(deckCard.card))
        /\ deckCard.quantity = 1

\* a violation of a deck: its text without the numbers, the card it names
\* and the count it prints
DeckError(error, name, count) == [error |-> error, name |-> name, count |-> count]

\* the legality branch of the loop body of validateFormatLegality
legalityErrors(deckCard, format) ==
  LET legality == deckCard.card.legalities[LowerCaseName(format)]
  IN IF legality = <<"banned">>
       THEN <<DeckError("is banned in", <<deckCard.card.name>>, Undefined)>>
     ELSE IF legality = <<"restricted">> /\ deckCard.quantity > 1
       THEN <<DeckError("is restricted to 1 copy in", <<deckCard.card.name>>, Undefined)>>
     ELSE IF legality = Undefined \/ legality = <<"not_legal">>
       THEN <<DeckError("is not legal in", <<deckCard.card.name>>, Undefined)>>
     ELSE <<>>

\* the copy check of the loop body: count is the value read from cardCounts
\* before this entry's quantity was added
copyErrors(deckCard, count, formatRules) ==
  IF ~isBasicLand(deckCard.card.name) /\ count > formatRules.maxCopies
  THEN <<DeckError("Too many copies of", <<deckCard.card.name>>, <<count>>)>>
  ELSE <<>>

RECURSIVE mainboardLoop(_, _, _, _, _)
\* for (const deckCard of deck.mainboard): the errors and the total so far
mainboardLoop(mainboard, format, cardCounts, totalCards, errors) ==
  IF mainboard = <<>> THEN [totalCards |-> totalCards, errors |-> errors]
  ELSE LET deckCard == Head(mainboard)
           count == cardCounts[deckCard.card.name]
       IN mainboardLoop(Tail(mainboard), format,
            [cardCounts EXCEPT ![deckCard.card.name] = count + deckCard.quantity],
            totalCards + deckCard.quantity,
            errors \o legalityErrors(deckCard, format)
                   \o copyErrors(deckCard, count, getFormatRules(format)))

validateFormatLegality(deck, format) ==
  LET formatRules == getFormatRules(format)
      names == {deck.mainboard[i].card.name : i \in DOMAIN deck.mainboard}
      loop == mainboardLoop(deck.mainboard, format, [n \in names |-> 0], 0, <<>>)
      totalCards == loop.totalCards
      errors ==
        loop.errors
        \o (IF totalCards < formatRules.minDeckSize
            THEN <<DeckError("Deck too small", Undefined, <<totalCards>>)>> ELSE <<>>)
        \o (IF formatRules.maxDeckSize # Undefined
               /\ totalCards > formatRules.maxDeckSize[1]
            THEN <<DeckError("Deck too large", Undefined, <<totalCards>>)>> ELSE <<>>)
        \o (IF formatRules.exactDeckSize # Undefined
               /\ totalCards # formatRules.exactDeckSize[1]
            THEN <<DeckError("Deck must be exactly", Undefined, <<totalCards>>)>>
            ELSE <<>>)
        \o (IF formatRules.commanderRequired /\ ~hasCommander(deck)
            THEN <<DeckError("Commander format requires a commander", Undefined,
                             Undefined)>>
            ELSE <<>>)
  IN [isValid |-> errors = <<>>, errors |-> errors, warnings |-> <<>>]

DeckCard(name, types, legality) ==
  [name |-> name, type_line |-> types,
   legalities |-> [standard |-> legality, commander |-> legality]]

\* the cards a deck is built from
DeckCards ==
  {DeckCard("Lightning Bolt", {"instant"}, <<"legal">>),
   DeckCard("Forest", {"basic", "land"}, <<"legal">>),
   DeckCard("Alesha", {"legendary", "creature"}, <<"legal">>),
   DeckCard("Black Lotus", {"artifact"}, <<"restricted">>)}

Decks ==
  {[mainboard |-> m] :
     m \in SeqsUpTo({[card |-> c, quantity |-> q] : c \in DeckCards, q \in {1, 2, 5}},
                    MaxEntries)}

Formats == {"Standard", "Commander"}

ValidateFormatLegality ==
  /\ pc = "idle"
  /\ \E deck \in Decks, format \in Formats :
        call' = [op |-> "validateFormatLegality",
                 args |-> [deck |-> deck, format |-> format],
                 result |-> validateFormatLegality(deck, format)]
  /\ pc' = "returned"
  /\ UNCHANGED <<gs, before, prior, priorWas>>

InitDeck ==
  /\ gs = NoSnapshot
  /\ before = NoSnapshot
  /\ prior = NoSnapshot
  /\ priorWas = NoSnapshot
  /\ call = NoCall
  /\ pc = "idle"

NextDeck ==
  \/ ValidateFormatLegality
  \/ Return

SpecDeck == InitDeck /\ [][NextDeck]_vars

\* ------------------------------------------------------ CircuitBreaker
FailureThreshold == 2   \* the constructor's failureThreshold
ResetTimeoutMs == 2     \* the constructor's resetTimeoutMs, in clock ticks
MaxTime == 5            \* the last reading of Date.now()
MaxFailures == 4        \* the failures counted before the run is cut off
MaxInFlight == 2        \* operations awaited at one time

\* a breaker after construction, with the clock it reads and the number of
\* operations whose promise is pending
NewCircuitBreaker ==
  [failureCount |-> 0, nextAttempt |-> 0, state |-> "closed", now |-> 0, inFlight |-> 0]

onSuccess(breaker) == [breaker EXCEPT !.failureCount = 0, !.state = "closed"]

\* a breaker that opens only above the threshold
onFailureAbove(breaker) ==
  LET failureCount == breaker.failureCount + 1
  IN IF failureCount > FailureThreshold
     THEN [breaker EXCEPT !.failureCount = failureCount, !.state = "open",
                          !.nextAttempt = breaker.now + ResetTimeoutMs]
     ELSE [breaker EXCEPT !.failureCount = failureCount]

onFailure(breaker) ==
  LET failureCount == breaker.failureCount + 1
  IN IF failureCount >= FailureThreshold
     THEN [breaker EXCEPT !.failureCount = failureCount, !.state = "open",
                          !.nextAttempt = breaker.now + ResetTimeoutMs]
     ELSE [breaker EXCEPT !.failureCount = failureCount]

\* what the harness has seen: the failures in a row since the last success
\* and the time the breaker was last set open
Seen(failures, openedAt) == [failures |-> failures, openedAt |-> openedAt]

\* execute up to the await: the call is rejected, or the operation is invoked
Execute ==
  /\ pc = "idle"
  /\ gs.inFlight < MaxInFlight
  /\ before' = gs
  /\ IF gs.state = "open" /\ gs.now < gs.nextAttempt
     THEN /\ gs' = gs
          /\ call' = [op |-> "execute", thrown |-> <<"Circuit breaker is OPEN">>,
                      invoked |-> FALSE]
     ELSE /\ gs' = [gs EXCEPT !.state = IF @ = "open" THEN "half-open" ELSE @,
                              !.inFlight = @ + 1]
          /\ call' = [op |-> "execute", thrown |-> Undefined, invoked |-> TRUE]
  /\ UNCHANGED <<prior, priorWas, pc>>

\* the promise of an operation resolves
OperationSucceeds ==
  /\ pc = "idle"
  /\ gs.inFlight > 0
  /\ before' = gs
  /\ gs' = [onSuccess(gs) EXCEPT !.inFlight = @ - 1]
  /\ call' = [op |-> "onSuccess", thrown |-> Undefined, invoked |-> TRUE]
  /\ prior' = Seen(0, prior.openedAt)
  /\ UNCHANGED <<priorWas, pc>>

\* the promise of an operation rejects; execute rethrows the error
OperationFails ==
  /\ pc = "idle"
  /\ gs.inFlight > 0
  /\ gs.failureCount < MaxFailures
  /\ before' = gs
  /\ gs' = [onFailure(gs) EXCEPT !.inFlight = @ - 1]
  /\ call' = [op |-> "onFailure", thrown |-> <<"error">>, invoked |-> TRUE]
  /\ prior' = Seen(prior.failures + 1,
                   IF gs'.state = "open" THEN <<gs.now>> ELSE prior.openedAt)
  /\ UNCHANGED <<priorWas, pc>>

\* Date.now() moves on
Tick ==
  /\ pc = "idle"
  /\ gs.now < MaxTime
  /\ before' = gs
  /\ gs' = [gs EXCEPT !.now = @ + 1]
  /\ call' = [op |-> "tick", thrown |-> Undefined, invoked |-> FALSE]
  /\ UNCHANGED <<prior, priorWas, pc>>

InitBreaker ==
  /\ gs = NewCircuitBreaker
  /\ before = NoSnapshot
  /\ prior = Seen(0, Undefined)
  /\ priorWas = NoSnapshot
  /\ call = NoCall
  /\ pc = "idle"

NextBreaker ==
  \/ Execute
  \/ OperationSucceeds
  \/ OperationFails
  \/ Tick

SpecBreaker == InitBreaker /\ [][NextBreaker]_vars

Init ==
  /\ gs \in {StartState(FALSE), StartState(TRUE)}
  /\ before = NoSnapshot
  /\ prior = NoSnapshot
  /\ priorWas = NoSnapshot
  /\ call = NoCall
  /\ pc = "idle"

Next ==
  \/ \E event \in ZoneChangeEvents : ExecuteZoneChange(event)
  \/ \E actions \in StateBasedActionLists : ExecuteStateBasedActions(actions)
  \/ \E p \in PlayerIds : DrawCard(p)
  \/ \E p \in PlayerIds, count \in 0..MaxCount : MillCards(p, count)
  \/ Return

Spec == Init /\ [][Next]_vars

\* ============================================================== claims
\* what a zone holds, read off a snapshot: the ids in order
ZoneCards(g, zone, p) ==
  CASE zone \in PlayerZones -> g.players[p][zone]
    [] zone = "battlefield" -> g.battlefield[p]
    [] zone = "stack" -> [i \in DOMAIN g.stack |-> g.stack[i].source]

Count(arr, c) == Cardinality({i \in DOMAIN arr : arr[i] = c})

\* in how many places of the snapshot card c sits
Occurrences(c, g) ==
  Count(ZoneCards(g, "hand", "player"), c) + Count(ZoneCards(g, "hand", "ai"), c)
  + Count(ZoneCards(g, "library", "player"), c) + Count(ZoneCards(g, "library", "ai"), c)
  + Count(ZoneCards(g, "graveyard", "player"), c) + Count(ZoneCards(g, "graveyard", "ai"), c)
  + Count(ZoneCards(g, "exile", "player"), c) + Count(ZoneCards(g, "exile", "ai"), c)
  + Count(ZoneCards(g, "battlefield", "player"), c)
  + Count(ZoneCards(g, "battlefield", "ai"), c)
  + Count(ZoneCards(g, "stack", "player"), c)

\* the card of an event sits in the zone the event names: the event's
\* player's hand, library, graveyard or exile, either battlefield, the stack
InZone(c, zone, p, g) ==
  IF zone = "battlefield"
  THEN Count(g.battlefield["player"], c) + Count(g.battlefield["ai"], c) > 0
  ELSE Count(ZoneCards(g, zone, p), c) > 0

Min(a, b) == IF a < b THEN a ELSE b

ZoneChangeDone == call.op = "executeZoneChange" /\ call.status = "ok"
ZoneChangeRejected == call.op = "executeZoneChange" /\ call.status # "ok"

\* C1: after any sequence of successful executeZoneChange, drawCard, millCards
\* and executeStateBasedActions calls, every card instance id occurs in exactly
\* one zone of the snapshot (never zero, never two).
C1_ExactlyOneZone == \A c \in Cards : Occurrences(c, gs) = 1

\* the pairs the claim lists as outside the transition table
C2_IllegalPairs ==
  {<<"library", "stack">>, <<"battlefield", "stack">>, <<"stack", "library">>}
  \cup {<<z, z>> : z \in Zone}

\* C2: a move whose (from, to) pair is outside the transition table is rejected
\* with a ValidationError even when the card is in the source zone; a move
\* whose pair is in the table and whose card is in the source zone is accepted.
C2_TransitionTable ==
  call.op = "executeZoneChange" =>
    LET e == call.args
        present == InZone(e.card, e.from, e.player, before)
    IN /\ <<e.from, e.to>> \in C2_IllegalPairs =>
            /\ call.status \in {"not_found", "invalid_transition"}
            /\ present => call.status = "invalid_transition"
       /\ (<<e.from, e.to>> \notin C2_IllegalPairs /\ present) => call.status = "ok"

\* a library card was refused the move to the stack
C2_Witness ==
  /\ ZoneChangeRejected
  /\ call.args.from = "library" /\ call.args.to = "stack"
  /\ InZone(call.args.card, "library", call.args.player, before)
  /\ call.status = "invalid_transition"

\* C3: a rejected executeZoneChange leaves the snapshot it was given exactly
\* as it was, and produces no new snapshot.
C3_RejectedLeavesStateUnchanged ==
  ZoneChangeRejected => gs = before /\ prior = NoSnapshot /\ ~call.fresh

\* a move of a card that is in its source zone was rejected for its pair
C3_Witness ==
  /\ ZoneChangeRejected
  /\ call.status = "invalid_transition"
  /\ InZone(call.args.card, call.args.from, call.args.player, before)
  /\ call.args.from # call.args.to

\* C4: after every successful executeZoneChange, for every legal pair including
\* to = stack, the moved card is absent from the source zone and present in the
\* destination zone of the returned snapshot.
C4_MovedCardInDestination ==
  ZoneChangeDone =>
    /\ ~InZone(call.args.card, call.args.from, call.args.player, gs)
    /\ InZone(call.args.card, call.args.to, call.args.player, gs)

DestBefore == ZoneCards(before, call.args.to, call.args.player)
DestAfter == ZoneCards(gs, call.args.to, call.args.player)

\* every card of the destination but the moved one keeps its place in line
OthersKeepOrder ==
  /\ FilterOut(DestAfter, call.args.card) = DestBefore
  /\ Len(DestAfter) = Len(DestBefore) + 1

\* card c is the element at 0-based index i
SitsAt(arr, i, c) == (i + 1) \in DOMAIN arr /\ arr[i + 1] = c

\* where the moved card sits: on top of the library, or with a position at
\* the index that position stands for (the position itself, or the position
\* clamped to the library's size); last in hand, graveyard or exile; last on
\* the battlefield of the event's player
Placed(clamped) ==
  ZoneChangeDone /\ call.args.to # "stack" =>
    /\ OthersKeepOrder
    /\ CASE call.args.to = "library" ->
              IF call.args.position = Undefined
              THEN SitsAt(DestAfter, 0, call.args.card)
              ELSE SitsAt(DestAfter,
                          IF clamped
                          THEN Min(call.args.position[1], Len(DestBefore))
                          ELSE call.args.position[1],
                          call.args.card)
         [] call.args.to \in {"hand", "graveyard", "exile"} ->
              call.args.position = Undefined
                => SitsAt(DestAfter, Len(DestAfter) - 1, call.args.card)
         [] call.args.to = "battlefield" ->
              SitsAt(DestAfter, Len(DestAfter) - 1, call.args.card)

\* C6 as stated: a card moved to the library with no position becomes the top
\* card and with position p sits at index p; moved to hand, graveyard or exile
\* with no position it becomes the last element; moved to the battlefield it
\* is appended to the battlefield of the event's player; the other cards of
\* the destination keep their relative order.
C6_PositionIsIndex == Placed(FALSE)

\* C6 amended: as C6, but a card moved to the library with position p >= 0
\* sits at index min(p, n), n being the size of the library before the move:
\* at index p when p <= n, at the bottom when p is larger.
C6_PositionClamped == Placed(TRUE)

\* a card was put into a non-empty library below its top, at the index asked
C6_Witness ==
  /\ ZoneChangeDone /\ call.args.to = "library"
  /\ call.args.position = <<1>>
  /\ Len(DestBefore) >= 1
  /\ SitsAt(DestAfter, 1, call.args.card)

\* C7: drawCard on an empty library returns null and leaves hand, library,
\* graveyard and exile unchanged; on a non-empty library it returns the card
\* that was at index 0, the library loses exactly that card and the hand gains
\* it as its last element.
C7_DrawCard ==
  call.op = "drawCard" =>
    LET was == before.players[call.player]
        now == gs.players[call.player]
    IN IF was.library = <<>>
       THEN call.result = Null /\ now = was
       ELSE /\ call.result = <<was.library[1]>>
            /\ now.library = SubSeq(was.library, 2, Len(was.library))
            /\ Len(now.library) = Len(was.library) - 1
            /\ now.hand = was.hand \o <<was.library[1]>>
            /\ Len(now.hand) = Len(was.hand) + 1
            /\ now.graveyard = was.graveyard /\ now.exile = was.exile

\* the top card of a library of two was drawn
C7_Witness ==
  /\ call.op = "drawCard"
  /\ Len(before.players[call.player].library) >= 2
  /\ call.result = <<before.players[call.player].library[1]>>

\* C8: millCards(player, n) on a library of size k moves exactly min(n, k)
\* cards: it returns the first min(n, k) library cards in library order,
\* appends them to the graveyard in that order, leaves the other library
\* cards in order and leaves the hand unchanged.
C8_MillCards ==
  call.op = "millCards" =>
    LET was == before.players[call.player]
        now == gs.players[call.player]
        k == Len(was.library)
        m == Min(call.count, k)
    IN /\ call.result = SubSeq(was.library, 1, m)
       /\ Len(call.result) = m
       /\ now.graveyard = was.graveyard \o SubSeq(was.library, 1, m)
       /\ now.library = SubSeq(was.library, m + 1, k)
       /\ now.hand = was.hand /\ now.exile = was.exile

\* more cards were asked for than the library held, and the library held some
C8_Witness ==
  /\ call.op = "millCards"
  /\ Len(before.players[call.player].library) >= 1
  /\ call.count > Len(before.players[call.player].library)
  /\ Len(call.result) = Len(before.players[call.player].library)

\* the timing class of a card, as the claim draws it
InstantSpeed(card) ==
  \/ "instant" \in card.type_line
  \/ "flash" \in TextOrEmpty(card.oracle_text)

CastRestrictionPhrases == CastPhrases \ {"flash"}

\* the card's text restricts when it may be cast, or the card is a land and
\* nothing else, which may only be played on its controller's turn
CastRestricted(card) ==
  \/ TextOrEmpty(card.oracle_text) \cap CastRestrictionPhrases # {}
  \/ /\ "land" \in card.type_line
     /\ card.type_line \cap {"instant", "sorcery", "creature", "artifact",
                             "enchantment", "planeswalker"} = {}

SorcerySpeedOnlyIf ==
  call.result =>
    /\ gs.phase \in {"main1", "main2"}
    /\ gs.stack = <<>>
    /\ gs.active_player = call.player
    /\ gs.priority = call.player

\* C9 as stated: canCastSpell of an instant-speed card is true in every phase
\* and step, with any stack size, for whichever player holds priority;
\* canCastSpell of a sorcery-speed card is true only if the phase is main1 or
\* main2, the stack is empty and the actor is the active player and holds
\* priority.
C9_SpeedClasses ==
  call.op = "canCastSpell" =>
    IF InstantSpeed(call.args.card)
    THEN gs.priority = call.player => call.result
    ELSE SorcerySpeedOnlyIf

\* C9 amended: the instant-speed half holds for the cards whose rules text has
\* no "can only be cast ..." restriction and that are not a land and nothing
\* else; the sorcery-speed half holds as stated.
C9_SpeedClassesUnrestricted ==
  call.op = "canCastSpell" =>
    IF InstantSpeed(call.args.card)
    THEN (~CastRestricted(call.args.card) /\ gs.priority = call.player)
           => call.result
    ELSE SorcerySpeedOnlyIf

\* a flash creature was found castable in the opponent's combat, with a
\* spell on the stack, by the non-active player holding priority
C9_Witness ==
  /\ call.op = "canCastSpell" /\ call.result
  /\ call.args.card.type_line = {"creature"}
  /\ call.args.card.oracle_text = <<{"flash"}>>
  /\ gs.phase = "combat" /\ gs.step = "declare_blockers"
  /\ gs.stack # <<>>
  /\ gs.active_player # call.player /\ gs.priority = call.player

TimingQueries == {"canCastSpell", "canActivateAbility", "canPlayLand"}

\* C10: canCastSpell, canActivateAbility and canPlayLand return false whenever
\* the acting player does not hold priority.
C10_NoPriorityNoAction ==
  (call.op \in TimingQueries /\ gs.priority # call.player) => ~call.result

\* an instant was refused to the active player in a main phase with an empty
\* stack, who did not hold priority
C10_Witness ==
  /\ call.op = "canCastSpell" /\ ~call.result
  /\ call.args.card = [type_line |-> {"instant"}, oracle_text |-> Undefined]
  /\ gs.phase = "main1" /\ gs.stack = <<>>
  /\ gs.active_player = call.player /\ gs.priority # call.player

\* the call validated a cast_spell of a card the actor holds
CastOfHeldCard ==
  /\ call.op = "validateAction"
  /\ call.args.action.type = "cast_spell"
  /\ call.args.action.cardId # Undefined
  /\ call.player \in PlayerIds
  /\ findCardInHand(call.args.action.cardId[1], gs.players[call.player]) # Null

HeldCard == findCardInHand(call.args.action.cardId[1], gs.players[call.player])[1]

HasError(error) == \E i \in DOMAIN call.result.errors : call.result.errors[i] = error

\* C11: for a card in the actor's hand, validateAction(cast_spell) reports
\* 'Cannot cast ... at current timing' exactly when
\* TimingManager.canCastSpell(card, state, actor) is false.
C11_CastTimingIsCanCastSpell ==
  CastOfHeldCard =>
    (HasError("Cannot cast ... at current timing")
       <=> ~canCastSpell(HeldCard, gs, call.player))

\* C12: validateAction(play_land) returns valid only if the card is in the
\* actor's hand, its type line contains 'land', the phase is main1 or main2,
\* the stack is empty and the actor is the active player; in every other
\* state it returns invalid with at least one violation.
C12_LandPlayValidOnlyIf ==
  (call.op = "validateAction" /\ call.args.action.type = "play_land") =>
    LET action == call.args.action
        legal ==
          /\ action.cardId # Undefined
          /\ action.player \in PlayerIds
          /\ \E i \in DOMAIN gs.players[action.player].hand :
               /\ gs.players[action.player].hand[i].id = action.cardId[1]
               /\ "land" \in gs.players[action.player].hand[i].type_line
          /\ gs.phase \in {"main1", "main2"}
          /\ gs.stack = <<>>
          /\ gs.active_player = action.player
    IN /\ call.result.isValid => legal
       /\ ~legal => (~call.result.isValid /\ call.result.errors # <<>>)

\* the snapshot after the holder of priority passes it
Passed(g) == [g EXCEPT !.priority = getNextPriorityPlayer(g)]

\* C13: getNextPriorityPlayer returns the active player whenever the stack is
\* empty, and otherwise the player who does not hold priority; the result is
\* always one of the two player identifiers, and with a non-empty stack two
\* successive passes return priority to the original holder.
C13_NextPriority ==
  call.op = "getNextPriorityPlayer" =>
    /\ call.result \in {"player", "ai"}
    /\ gs.stack = <<>> => call.result = gs.active_player
    /\ gs.stack # <<>> =>
         /\ call.result # gs.priority
         /\ Passed(gs).priority = call.result
         /\ Passed(Passed(gs)).priority = gs.priority

\* with a spell on the stack and the non-active player holding priority, the
\* next holder is the active player
C13_Witness ==
  /\ call.op = "getNextPriorityPlayer"
  /\ gs.stack # <<>>
  /\ gs.priority # gs.active_player
  /\ call.result = gs.active_player

\* the last two logged events are passes, one by each player
BothPassedInSuccession(log) ==
  /\ Len(log) >= 2
  /\ log[Len(log)].type = "pass_priority"
  /\ log[Len(log) - 1].type = "pass_priority"
  /\ log[Len(log)].player # log[Len(log) - 1].player

\* C14: shouldAdvancePhase is true only when the stack is empty and both
\* players have passed priority in succession; with an empty stack and the
\* two players not having both passed since the last action it is false.
C14_AdvanceOnlyAfterBothPass ==
  (call.op = "shouldAdvancePhase" /\ call.result) =>
    (gs.stack = <<>> /\ BothPassedInSuccession(gs.game_log))

\* the ids of the cards a snapshot holds outside the libraries
CardIdsOf(g) ==
  UNION {{g.battlefield[p][i].id : i \in DOMAIN g.battlefield[p]} : p \in PlayerIds}
  \cup UNION {{g.players[p][z][i].id : i \in DOMAIN g.players[p][z]} :
                p \in PlayerIds, z \in {"hand", "graveyard", "exile"}}
  \cup {g.stack[i].source.id : i \in DOMAIN g.stack}

\* C15: validateTargets returns true only if the number of chosen targets
\* equals the number of parsed requirement clauses and, for each position i,
\* target i exists in the snapshot (a player identifier, or a card on a
\* battlefield, in a hand, graveyard or exile, or the source of a stack
\* object), its type equals requirement i's kind unless that kind is 'any',
\* and it satisfies every restriction of requirement i; it returns true for a
\* card with no requirements and no chosen targets.
C15_ValidTargetsOnlyIf ==
  call.op = "validateTargets" =>
    LET requirements == parseTargetRequirements(call.args.card)
        targets == call.args.targets
    IN /\ call.result =>
            /\ Len(targets) = Len(requirements)
            /\ \A i \in DOMAIN requirements :
                 /\ targets[i].id \in PlayerIds \cup CardIdsOf(gs)
                 /\ requirements[i].type \in {"any", targets[i].type}
                 /\ \A k \in DOMAIN requirements[i].restrictions :
                      validateRestriction(requirements[i].restrictions[k],
                                          targets[i], gs)
       /\ (requirements = <<>> /\ targets = <<>>) => call.result

\* a player and a creature were accepted for "target player ..., target
\* nonland permanent"
C15_Witness ==
  /\ call.op = "validateTargets" /\ call.result
  /\ Len(parseTargetRequirements(call.args.card)) = 2
  /\ call.args.targets =
       <<Target("ai", "player", "ai"), Target("c1", "permanent", "player")>>

\* the creatures on a player's battlefield, as getValidTargets lists them
CreaturesOf(g, p) ==
  LET creatures == SelectSeq(g.battlefield[p],
                             LAMBDA card : "creature" \in card.type_line)
  IN [i \in DOMAIN creatures |-> Target(creatures[i].id, "creature", p)]

OtherPlayer(p) == IF p = "player" THEN "ai" ELSE "player"

YouControlText ==
  <<(<<"Target", "creature", "you", "control", "gains", "flying", ".">>)>>

OpponentControlsText ==
  <<(<<"Destroy", "target", "creature", "an", "opponent", "controls", ".">>)>>

\* C16: getValidTargets(card, state, p) for a 'target creature you control'
\* card returns exactly the creatures on p's battlefield, and for an 'an
\* opponent controls' card exactly the creatures on the other player's
\* battlefield, for p = player and for p = ai alike.
C16_ControlRelativeToRequester ==
  call.op = "getValidTargets" =>
    /\ call.args.card.oracle_text = YouControlText =>
         call.result = CreaturesOf(gs, call.player)
    /\ call.args.card.oracle_text = OpponentControlsText =>
         call.result = CreaturesOf(gs, OtherPlayer(call.player))

\* the words of the text of the card just parsed
ParsedText == SeqOrEmpty(call.args.card.oracle_text)

\* C17: a clause worded 'two target ...' or 'three target ...' yields a
\* requirement with count 2 or 3, a clause worded 'up to N target ...' yields
\* a requirement with optional = true and count N, and a plain 'target ...'
\* clause yields count 1 and optional = false.
C17_LiteralCounts ==
  call.op = "parseTargetRequirements" =>
    /\ ParsedText = <<"Destroy", "two", "target", "creatures", ".">> =>
         (Len(call.result) = 1 /\ call.result[1].count = 2)
    /\ ParsedText = <<"Destroy", "three", "target", "creatures", ".">> =>
         (Len(call.result) = 1 /\ call.result[1].count = 3)
    /\ ParsedText = <<"deals", "damage", "to", "up", "to", "two", "target",
                      "creatures", ".">> =>
         (Len(call.result) = 1 /\ call.result[1].count = 2
                               /\ call.result[1].optional)
    /\ ParsedText = <<"Destroy", "target", "creature", ".">> =>
         (Len(call.result) = 1 /\ call.result[1].count = 1
                               /\ ~call.result[1].optional)

\* the number a toughness string denotes
ToughnessValue ==
  [x \in {"-1", "0", "1", "2", "3"} |->
     CASE x = "-1" -> 0 - 1 [] x = "0" -> 0 [] x = "1" -> 1 [] x = "2" -> 2
       [] x = "3" -> 3]

HasToughness(card) ==
  card.toughness # Undefined /\ card.toughness[1] \in DOMAIN ToughnessValue

ToughnessOf(card) == ToughnessValue[card.toughness[1]]

\* the creatures on the battlefields of the snapshot scanned
ScannedCreatures ==
  {c \in UNION {{gs.battlefield[p][i] : i \in DOMAIN gs.battlefield[p]} :
                  p \in PlayerIds} :
     "creature" \in c.type_line /\ HasToughness(c)}

ManagerScanDone == call.op = "checkStateBasedActions"
EngineScanDone == call.op = "MTGRulesEngine.checkStateBasedActions"

Reported(P(_)) == \E k \in DOMAIN call.result : P(call.result[k])

DeathTypes ==
  {"creature_dies_toughness", "creature_dies_damage", "creature_dies_deathtouch"}

\* C18: the scan reports, for every snapshot and without modifying it, a
\* player-loss action for each player whose life is <= 0 and for each player
\* whose library is empty, and a creature-death action for each battlefield
\* creature whose toughness is <= 0; it reports no player-loss action for a
\* player with positive life and a non-empty library, and no death for a
\* creature with positive toughness.  Both scans are covered: the manager's
\* structured one and the engine's list of messages.
C18_ScanReports ==
  /\ ManagerScanDone =>
       /\ gs = before
       /\ \A p \in PlayerIds :
            /\ gs.players[p].life <= 0 =>
                 Reported(LAMBDA a : a.type = "player_loses_life"
                                     /\ a.affectedPlayer = <<p>>)
            /\ gs.players[p].library = <<>> =>
                 Reported(LAMBDA a : a.type = "player_loses_library"
                                     /\ a.affectedPlayer = <<p>>)
            /\ (gs.players[p].life > 0 /\ gs.players[p].library # <<>>) =>
                 ~Reported(LAMBDA a : a.affectedPlayer = <<p>>)
       /\ \A c \in ScannedCreatures :
            Reported(LAMBDA a : a.type \in DeathTypes /\ a.affectedCards = <<c>>)
              <=> ToughnessOf(c) <= 0
  /\ EngineScanDone =>
       /\ gs = before
       /\ \A p \in PlayerIds :
            /\ gs.players[p].life <= 0 =>
                 Reported(LAMBDA a : a.message = "loses the game due to 0 or less life"
                                     /\ a.player = p)
            /\ gs.players[p].library = <<>> =>
                 Reported(LAMBDA a : a.message = "loses the game by drawing from empty library"
                                     /\ a.player = p)
            /\ (gs.players[p].life > 0 /\ gs.players[p].library # <<>>) =>
                 ~Reported(LAMBDA a : a.player = p /\ "card" \notin DOMAIN a)
       /\ \A c \in ScannedCreatures :
            Reported(LAMBDA a : "card" \in DOMAIN a /\ a.card = c)
              <=> ToughnessOf(c) <= 0

\* a scan that found a dead player, an empty library and a 0-toughness
\* creature next to a healthy one
C18_Witness ==
  /\ ManagerScanDone
  /\ gs.players["player"].life = 0 /\ gs.players["ai"].library = <<>>
  /\ gs.players["ai"].life = 20 /\ gs.players["player"].library # <<>>
  /\ \E i, j \in DOMAIN gs.battlefield["player"] :
       /\ gs.battlefield["player"][i].id = "wall"
       /\ gs.battlefield["player"][j].id = "bear"
  /\ Len(SelectSeq(call.result, LAMBDA a : a.type \in DeathTypes)) = 1

\* the legendary permanents of one name on one battlefield, in order
LegendInstances(p, name) ==
  SelectSeq(gs.battlefield[p],
            LAMBDA c : "legendary" \in c.type_line /\ getLegendaryName(c) = name)

\* the battlefields and names with two or more instances
RepeatedLegends ==
  {pn \in PlayerIds \X {getLegendaryName(c) : c \in PlayerPermanents \cup OpponentPermanents} :
     Len(LegendInstances(pn[1], pn[2])) >= 2}

LegendRuleActions ==
  SelectSeq(call.result, LAMBDA a : a.type = "legend_rule_violation")

\* C19: for each player's battlefield and each legendary name that occurs
\* n >= 2 times on it, the scan slates exactly the n - 1 instances after the
\* first-encountered one for the graveyard and never the first; legendary
\* permanents with the same name on different players' battlefields, and
\* names occurring once, produce no legend-rule action.
C19_LegendRule ==
  ManagerScanDone =>
    /\ Len(LegendRuleActions) = Cardinality(RepeatedLegends)
    /\ \A pn \in RepeatedLegends :
         \E k \in DOMAIN LegendRuleActions :
           LegendRuleActions[k].affectedCards = Tail(LegendInstances(pn[1], pn[2]))

\* three permanents of one legendary name on the player's battlefield, a
\* fourth on the opponent's, and two slated
C19_Witness ==
  /\ ManagerScanDone
  /\ Len(LegendInstances("player", <<"Ayara">>)) = 3
  /\ Len(LegendInstances("ai", <<"Ayara">>)) = 1
  /\ Len(LegendRuleActions) = 1
  /\ Len(LegendRuleActions[1].affectedCards) = 2

\* the permanent is attached to something that is on a battlefield
AttachedToPermanent(c) ==
  /\ c.attached_to # Undefined
  /\ \E p \in PlayerIds : \E i \in DOMAIN gs.battlefield[p] :
       gs.battlefield[p][i].id = c.attached_to[1]

\* C20: an aura on the battlefield is slated for the graveyard by the scan
\* only when it has no valid attachment target: an aura attached to a legal
\* object is not slated, and an equipment is at most slated for unattachment,
\* never for the graveyard.
C20_AttachedAuraStays ==
  ManagerScanDone =>
    \A k \in DOMAIN call.result :
      \A i \in DOMAIN call.result[k].affectedCards :
        LET c == call.result[k].affectedCards[i]
        IN /\ (call.result[k].type = "aura_unattached") => ~AttachedToPermanent(c)
           /\ ("equipment" \in c.type_line) =>
                call.result[k].type \notin GraveyardBound

\* the cards named by the graveyard-bound actions of a list
NamedForGraveyard(actions) ==
  UNION {{actions[k].affectedCards[i] : i \in DOMAIN actions[k].affectedCards} :
           k \in {j \in DOMAIN actions : actions[j].type \in GraveyardBound}}

Elements(arr) == {arr[i] : i \in DOMAIN arr}

\* C21: executeStateBasedActions moves every card named by a graveyard-bound
\* action from the battlefield it is on to that same player's graveyard,
\* exactly once even when several actions name the same card, and changes
\* nothing else; a list holding only player-loss actions returns a snapshot
\* equal to the input.
C21_OnlyNamedCardsMove ==
  call.op = "executeStateBasedActions" =>
    LET named == NamedForGraveyard(call.args)
    IN /\ \A p \in PlayerIds :
            LET moved == Elements(before.battlefield[p]) \cap named
                old == before.players[p].graveyard
                new == gs.players[p].graveyard
            IN /\ gs.battlefield[p] =
                    SelectSeq(before.battlefield[p], LAMBDA c : c \notin named)
               /\ Len(new) = Len(old) + Cardinality(moved)
               /\ SubSeq(new, 1, Len(old)) = old
               /\ {new[i] : i \in (Len(old) + 1)..Len(new)} = moved
       /\ [gs EXCEPT !.battlefield = before.battlefield,
                     !.players = [p \in PlayerIds |->
                        [@[p] EXCEPT !.graveyard = before.players[p].graveyard]]]
            = before
       /\ named = {} => gs = before

\* two actions named one card of the opponent's battlefield, and it went to
\* the opponent's graveyard once
C21_Witness ==
  /\ call.op = "executeStateBasedActions"
  /\ Len(call.args) = 2
  /\ before.battlefield["ai"] # <<>>
  /\ call.args[1].affectedCards = <<before.battlefield["ai"][1]>>
  /\ Count(gs.players["ai"].graveyard, before.battlefield["ai"][1]) = 1
  /\ gs.battlefield["ai"] = Tail(before.battlefield["ai"])

PlayerLossTypes == {"player_loses_life", "player_loses_library", "player_loses_poison"}

\* C22: the loop state := executeStateBasedActions(checkStateBasedActions(
\* state), state), started from any snapshot, eventually reaches a state in
\* which checkStateBasedActions returns an empty list.
C22_LoopReachesEmptyScan ==
  (pc = "idle") ~> (pc = "idle" /\ checkStateBasedActions(gs) = <<>>)

\* C30: one pass settles the battlefield: in s' = executeStateBasedActions(
\* checkStateBasedActions(s), s) the scan reports no card-moving action, only
\* player-loss actions can remain, and applying the scan of s' to s' returns
\* a snapshot equal to s'.
C30_OnePassSettles ==
  (pc = "returned" /\ call.op = "loop") =>
    LET remaining == checkStateBasedActions(gs)
    IN /\ \A i \in DOMAIN remaining :
            /\ remaining[i].type \in PlayerLossTypes
            /\ remaining[i].affectedCards = <<>>
       /\ executeScanActions(remaining, gs) = gs

\* a pass moved cards of a legend-rule action naming two permanents and the
\* scan of its result still reports a player's loss
C30_Witness ==
  /\ pc = "returned" /\ call.op = "loop"
  /\ \E i \in DOMAIN call.args :
        /\ call.args[i].type = "legend_rule_violation"
        /\ Len(call.args[i].affectedCards) = 2
  /\ Len(gs.players["player"].graveyard) >= 2
  /\ checkStateBasedActions(gs) # <<>>

ValidateActionDone == pc = "returned" /\ call.op = "validateAction"

\* C23: validateAction never throws and never modifies the snapshot: for
\* every action kind and every game state it returns a verdict in which
\* isValid is false exactly when the errors list is non-empty.
C23_VerdictNeverThrown ==
  /\ [](ValidateActionDone =>
          /\ DOMAIN call.result = {"isValid", "errors", "warnings"}
          /\ call.result.isValid \in BOOLEAN
          /\ ~call.result.isValid <=> call.result.errors # <<>>)
  /\ [][(pc = "idle" /\ call'.op = "validateAction") => gs' = gs]_vars

\* a validator threw and the verdict carries the error it was turned into
C23_Witness ==
  /\ ValidateActionDone
  /\ ValidationThrows(call.args.action, gs)
  /\ ~call.result.isValid
  /\ call.result.errors = <<"Validation error: ...">>

\* the payment a cast declares, a colour it leaves out being 0
PaymentOf(action) ==
  IF action.manaPayment = Undefined THEN NoMana ELSE action.manaPayment[1]

\* the parsed cost of a card, nothing being required where no cost is printed
CostOf(card) ==
  IF card.mana_cost = Undefined THEN NoMana ELSE parseManaCost(card.mana_cost[1])

\* C24: the mana payment of a cast_spell is accepted exactly when its total
\* equals the total of the card's parsed cost, each coloured amount paid is
\* at least the coloured amount required, and no colour's paid amount
\* exceeds what the actor's pool holds of that colour; otherwise the verdict
\* carries an 'Insufficient mana' violation.
C24_ManaAcceptedExactlyWhen ==
  CastOfHeldCard =>
    LET payment == PaymentOf(call.args.action)
        cost == CostOf(HeldCard)
        pool == gs.players[call.player].mana_pool
        accepted ==
          /\ SumOver(payment, Colors) = SumOver(cost, Colors)
          /\ \A c \in Colors \ {"colorless"} : payment[c] >= cost[c]
          /\ \A c \in Colors : payment[c] <= pool[c]
    IN HasError("Insufficient mana to cast ...") <=> ~accepted

\* how many targets a cast declares, none when the list is left out
DeclaredTargets(action) ==
  IF action.targets = Undefined THEN 0 ELSE Len(action.targets[1])

\* C25: for a cast_spell of a card whose text contains 'target', the verdict
\* is valid only if the number of declared targets equals the number of
\* occurrences of 'target'; a cast with the targets left out is rejected with
\* an invalid-targets violation, as one with an empty or over-long list is.
C25_TargetCountEnforced ==
  (CastOfHeldCard /\ MatchTargetCount(TextOrEmpty(HeldCard.oracle_text)) > 0) =>
    (DeclaredTargets(call.args.action)
       # MatchTargetCount(TextOrEmpty(HeldCard.oracle_text))
     => /\ ~call.result.isValid
        /\ HasError("Invalid targets for ..."))

\* the verdict holds exactly the violations of the failed ones of two checks
VerdictOf(stepWrong, stepError, actorWrong, actorError) ==
  /\ call.result.isValid <=> (~stepWrong /\ ~actorWrong)
  /\ call.result.errors =
       (IF stepWrong THEN <<stepError>> ELSE <<>>)
       \o (IF actorWrong THEN <<actorError>> ELSE <<>>)

\* C26: declare_attackers is valid exactly when phase = combat, step =
\* declare_attackers and the actor is the active player; declare_blockers
\* exactly when phase = combat, step = declare_blockers and the actor is the
\* non-active player; pass_priority exactly when the actor holds priority;
\* each failed check adds its own violation.
C26_CombatAndPriorityVerdicts ==
  ValidateActionDone =>
    LET action == call.args.action
    IN /\ action.type = "declare_attackers" =>
            VerdictOf(gs.phase # "combat" \/ gs.step # "declare_attackers",
                      "Can only declare attackers during declare attackers step",
                      action.player # gs.active_player,
                      "Only active player can declare attackers")
       /\ action.type = "declare_blockers" =>
            VerdictOf(gs.phase # "combat" \/ gs.step # "declare_blockers",
                      "Can only declare blockers during declare blockers step",
                      action.player = gs.active_player,
                      "Only defending player can declare blockers")
       /\ action.type = "pass_priority" =>
            VerdictOf(FALSE, "", action.player # gs.priority,
                      "Player does not have priority")

\* the non-active player declared blockers in the declare-blockers step and
\* the verdict was valid
C26_Witness ==
  /\ ValidateActionDone
  /\ call.args.action.type = "declare_blockers"
  /\ gs.phase = "combat" /\ gs.step = "declare_blockers"
  /\ call.args.action.player # gs.active_player
  /\ call.result.isValid

RECURSIVE QuantityOf(_, _)
\* the copies of a card name summed over all entries of a mainboard
QuantityOf(mainboard, name) ==
  IF mainboard = <<>> THEN 0
  ELSE (IF Head(mainboard).card.name = name THEN Head(mainboard).quantity ELSE 0)
       + QuantityOf(Tail(mainboard), name)

\* C27: validateFormatLegality enforces the copy limit on the total quantity
\* of each card name summed over all mainboard entries: a name whose total
\* exceeds maxCopies raises a 'Too many copies' violation however the copies
\* are split over entries, and a basic land never raises it.
C27_CopyLimitOnTotals ==
  (pc = "returned" /\ call.op = "validateFormatLegality") =>
    LET mainboard == call.args.deck.mainboard
        maxCopies == getFormatRules(call.args.format).maxCopies
    IN \A i \in DOMAIN mainboard :
         LET name == mainboard[i].card.name
         IN (\E k \in DOMAIN call.result.errors :
               /\ call.result.errors[k].error = "Too many copies of"
               /\ call.result.errors[k].name = <<name>>)
            <=> (~isBasicLand(name) /\ QuantityOf(mainboard, name) > maxCopies)

\* the breaker was open and its reset timeout, counted from the time it was
\* last set open, had not elapsed when the step began
OpenBeforeTimeout ==
  /\ before.state = "open"
  /\ prior.openedAt # Undefined
  /\ before.now < prior.openedAt[1] + ResetTimeoutMs

\* C28: the breaker starts closed; once failureThreshold executions have
\* failed with no success in between it is open; every execute made while it
\* is open and before the reset timeout has elapsed is rejected with 'Circuit
\* breaker is OPEN' without invoking the operation; a success resets the
\* failure count and closes it; after the timeout the next call runs the
\* operation in half-open state, and a failure there re-opens the breaker.
C28_CircuitBreaker ==
  /\ call = NoCall => gs.state = "closed"
  /\ (call.op = "onFailure" /\ prior.failures >= FailureThreshold) => gs.state = "open"
  /\ (call.op = "execute" /\ OpenBeforeTimeout) =>
        /\ call.thrown = <<"Circuit breaker is OPEN">>
        /\ ~call.invoked
        /\ gs = before
  /\ call.op = "onSuccess" => (gs.failureCount = 0 /\ gs.state = "closed")
  /\ (call.op = "execute" /\ before.state = "open" /\ ~OpenBeforeTimeout) =>
        /\ call.invoked
        /\ gs.state = "half-open"
  /\ (call.op = "onFailure" /\ before.state = "half-open") => gs.state = "open"

\* the call made after the timeout failed in half-open state and the breaker
\* is open again
C28_Witness ==
  /\ call.op = "onFailure"
  /\ before.state = "half-open"
  /\ gs.state = "open"
  /\ gs.nextAttempt > ResetTimeoutMs

\* C29: for every card whose text parses to exactly one target requirement,
\* every game state and every requesting player, each target returned by
\* getValidTargets, chosen alone, is accepted by validateTargets on the same
\* state, the targets of kind spell included.
C29_EnumeratedTargetsAreValid ==
  (call.op = "getValidTargets"
     /\ Len(parseTargetRequirements(call.args.card)) = 1) =>
    \A i \in DOMAIN call.result :
       validateTargets(call.args.card, <<call.result[i]>>, gs)

====
